---- MODULE Spec2Model ----
(***************************************************************************)
(* ScholarAI backend: retrieval re-ranking and source diversity            *)
(* (api/routes/retrieval.py), claim de-duplication and classification      *)
(* (services/claim_extractor.py) and brief synthesis                       *)
(* (services/synthesizer.py) as state machines.                            *)
(*                                                                         *)
(* Numbers: a relevance score is kept in hundredths (9650 is 96.50), a     *)
(* cosine distance in ten-thousandths (400 is 0.04), and each boost as a   *)
(* fraction of its own unit (1.05 = 21/20, 1.02 = 51/50, 1.1 = 11/10) so   *)
(* that the product of a score and its boosts is exact.  A text is a       *)
(* sequence of one-character strings; a chunk's content is a text followed *)
(* by `pad` blanks, so that its length can reach the code's thresholds.    *)
(***************************************************************************)
EXTENDS Integers, Sequences, FiniteSets, TLC

VARIABLES
    rpc,             \* position of the retrieval call
    session_id,      \* request.session_id
    query,           \* request.query (a text)
    top_k,           \* request.top_k
    max_per_source,  \* argument of _ensure_source_diversity
    results,         \* hit list: search output, then re-ranked in place
    selected,        \* _ensure_source_diversity: the selection being built
    response,        \* RetrieveChunksResponse (or an HTTP error)
    dpc,             \* position of the _deduplicate_claims call
    dedup_pass,      \* 1: the call of extract_claims; 2: a call on its output
    claims,          \* the list passed to _deduplicate_claims (mutated in place)
    similar,         \* pairs of claim ids whose similarity is >= the threshold
    dedup_in,        \* the list as it was when the call started
    deduped,         \* the list _deduplicate_claims returned
    comparisons,     \* the pairs the loops compared, in order
    kpc,             \* position of the classify_claims call
    batch,           \* the claims passed to classify_claims (mutated in place)
    llm,             \* what the LLM call of classify_claims does
    classify_in,     \* the claims as they were when the call started
    classify_out,    \* how classify_claims ended: its result or an exception
    spc,             \* position of the synthesize call
    synth_claims,    \* the claims passed to synthesize
    synth_sources,   \* len(sources) of the call
    synth_llm,       \* what the LLM call of synthesize does
    llm_calls,       \* chat completions requested by synthesize
    brief,           \* the ResearchBrief synthesize returned
    synth_out,       \* how synthesize ended: its result or an exception
    epc,             \* position of the _expand_query call
    expand_in,       \* the query passed to _expand_query
    queries,         \* the list _expand_query returned
    xpc,             \* position of the extract_claims call
    chunk_docs,      \* the document_id of each chunk passed to extract_claims
    known_sources,   \* the ids of the sources passed to extract_claims
    extract_llm,     \* what the LLM call of extract_claims does
    embedding,       \* what the embedding gateway does for the de-duplication
    extracted,       \* the claims extract_claims returned
    extract_out,     \* how extract_claims ended: its result or an exception
    session_chunks,  \* _session_data[session]["chunks"], by document_id
    session_sources, \* _session_data[session]["sources"]: id and claims_extracted
    session_claims,  \* _session_data[session]["claims"]
    session_brief,   \* _session_data[session]["brief"]
    session_query,   \* _session_data[session]["query"]: the request it came with
    request,         \* the last request to the routes and what its calls did
    reply,           \* the response to the last request
    requests,        \* number of requests served
    cpc,             \* position of a compute_similarity call: idle, call, done
    embedding1,      \* compute_similarity: the first vector
    embedding2,      \* compute_similarity: the second vector
    cosine,          \* how compute_similarity ended: its result or an exception
    gpc,             \* position of a cluster_claims call: idle, call, done
    cluster_in,      \* cluster_claims: the number of claims, claim i at position i
    similarity,      \* compute_similarity of the claims' embeddings, in hundredths
    similarity_threshold, \* cluster_claims: the threshold, in hundredths
    clusters,        \* the clusters returned, in the order they were created
    vector_store,    \* each route module's _vector_store: built or not, and its _session_data
    sessions_file,   \* the sessions that sessions.json holds
    created,         \* number of sessions process-docs has created
    saved_by_extract, \* per session, the claims the last extract-claims request saved
    store_reply,     \* the response to the last request to a store
    store_requests,  \* number of requests to the stores
    inflight,        \* the overlapping requests: route, position, local claims and sources
    save_order       \* the requests in the order of their save_session_claims

rvars == <<rpc, session_id, query, top_k, max_per_source, results, selected, response>>

dvars == <<dpc, dedup_pass, claims, similar, dedup_in, deduped, comparisons>>

kvars == <<kpc, batch, llm, classify_in, classify_out>>

svars == <<spc, synth_claims, synth_sources, synth_llm, llm_calls, brief, synth_out>>

evars == <<epc, expand_in, queries>>

xvars == <<xpc, chunk_docs, known_sources, extract_llm, embedding, extracted, extract_out>>

pvars == <<session_chunks, session_sources, session_claims, session_brief, session_query, request, reply, requests>>

cvars == <<cpc, embedding1, embedding2, cosine>>

gvars == <<gpc, cluster_in, similarity, similarity_threshold, clusters>>

tvars == <<vector_store, sessions_file, created, saved_by_extract, store_reply, store_requests, inflight, save_order>>

vars == <<rvars, dvars, kvars, svars, evars, xvars, pvars, cvars, gvars, tvars>>

\* what an action of one component leaves alone
NotRetrieval == <<dvars, kvars, svars, evars, xvars, pvars, cvars, gvars, tvars>>

NotDedup == <<rvars, kvars, svars, evars, xvars, pvars, cvars, gvars, tvars>>

NotClassify == <<rvars, dvars, svars, evars, xvars, pvars, cvars, gvars, tvars>>

NotSynthesis == <<rvars, dvars, kvars, evars, xvars, pvars, cvars, gvars, tvars>>

NotExpand == <<rvars, dvars, kvars, svars, xvars, pvars, cvars, gvars, tvars>>

NotExtract == <<rvars, dvars, kvars, svars, evars, pvars, cvars, gvars, tvars>>

NotPipeline == <<rvars, dvars, kvars, svars, evars, xvars, cvars, gvars, tvars>>

NotSimilarity == <<rvars, dvars, kvars, svars, evars, xvars, pvars, gvars, tvars>>

NotCluster == <<rvars, dvars, kvars, svars, evars, xvars, pvars, cvars, tvars>>

NotStore == <<rvars, dvars, kvars, svars, evars, xvars, pvars, cvars, gvars>>

(***************************************************************************)
(* Bounds of the model                                                     *)
(***************************************************************************)
MaxHits == 6          \* chunks a search of the handler model returns at most
MaxTopK == 6          \* largest request.top_k of the handler model
MaxCallHits == 4      \* hits of a direct rerank-and-diversify call
MaxCallTopK == 4      \* top_k of a direct call
MaxCallPerSource == 2 \* max_per_source of a direct call
MaxScoreHits == 2     \* hits of a scoring call
MaxClaims == 3        \* claims of one extraction
MaxBatch == 2         \* claims of one classification
MaxEntries == 2       \* entries of one LLM classification response
MaxFallbackBatch == 1 \* claims of one classification without the LLM
MaxSynthClaims == 3   \* claims of one synthesis
MaxLLMItems == 6      \* items of one list of an LLM synthesis response
MaxQueryLen == 6      \* characters of a query to expand
MaxFallbackClaims == 5 \* claims of one synthesis without the LLM
MaxExtracted == 2     \* claims of one LLM extraction response
MaxItemClaims == 6    \* claims given to the fallback synthesis, above the caps
MaxClusterClaims == 3 \* claims given to cluster_claims

MaxSessions == 2           \* sessions process-docs creates

MaxStoreRequests == 5      \* requests to the stores

MaxInflight == 2           \* requests in flight for one session
MaxDim == 2           \* length of an embedding vector
MaxRequests == 2      \* requests served for one session
DistanceSteps == 3    \* points of the cosine-distance grid of a scoring call
DistanceGap == 300    \* distance between consecutive hits of a slim search

(***************************************************************************)
(* Program constants                                                       *)
(***************************************************************************)
TopKLimit == 50              \* RetrieveChunksRequest.top_k: le=50
OversampleFactor == 2        \* retrieve_chunks: oversample_factor
InitialTopKCap == 50         \* retrieve_chunks: min(top_k * 2, 50)
DefaultMaxPerSource == 4     \* _ensure_source_diversity: max_per_source=4
MidLengthMin == 200          \* 200 <= content_length
MidLengthMax == 1000         \* content_length <= 1000
ShortLength == 100           \* content_length < 100
LengthUnit == 20             \* length boosts are in twentieths
MidLengthBoost == 21         \* 1.05
ShortLengthBoost == 18       \* 0.9
KeywordUnit == 50            \* the keyword boost is in fiftieths
KeywordStep == 1             \* 0.02 per matching query term
SectionUnit == 10            \* section boosts are in tenths
SectionBoost == 11           \* 1.1
ScoreCap == 10000            \* min(final_score, 100), in hundredths
StrongSources == 3           \* _default_classification: source_count >= 3
StrongConfidence == 70       \* ... and claim.confidence >= 70
SomeSources == 2             \* source_count >= 2
SomeConfidence == 60         \* ... and claim.confidence >= 60
MaxConfidence == 100         \* ClassificationSchema.confidence: le=100
DefaultConfidence == 50      \* _parse_raw_classifications: c.get("confidence", 50)
ConsensusCap == 5            \* consensus_claims[:5]
DisagreementCap == 3         \* disagreement_claims[:3]
QuestionCap == 4             \* uncertain_claims[:4]
LimitationCap == 5           \* validate_limitations: v[:5]
RatioUnit == 5               \* the ratios 0.6, 0.2 and 0.4 in fifths
HighConsensus == 3           \* consensus_ratio > 0.6
LowDisagreement == 1         \* disagreement_ratio < 0.2
HighDisagreement == 2        \* disagreement_ratio > 0.4
HighScore == 80              \* confidence_score of HIGH
LowScore == 45               \* confidence_score of LOW
MediumScore == 65            \* confidence_score of MEDIUM
FewSources == 3              \* len(sources) < 3
FewSourcesScore == 60        \* min(confidence_score, 60)
CoverageSources == 5         \* len(sources) < 5
EmptyScore == 20             \* _empty_brief: confidence_score
DefaultScore == 65           \* SynthesisResponseSchema.confidence_score default
MinWordLength == 2           \* _expand_query: len(w) > 2
MaxVariants == 3             \* _expand_query: queries[:3]
InferChunks == 3             \* extract_claims: chunks[:3]
DefaultThreshold == 75       \* cluster_claims: similarity_threshold = 0.75
ClusterThreshold == 10       \* routes/claims.py: len(classified_claims) > 10

(***************************************************************************)
(* Texts                                                                   *)
(***************************************************************************)
Min(a, b) == IF a <= b THEN a ELSE b

Max(a, b) == IF a >= b THEN a ELSE b

\* str.lower() on one character
LowerChar(c) ==
    CASE c = "A" -> "a"
      [] c = "B" -> "b"
      [] c = "C" -> "c"
      [] c = "H" -> "h"
      [] c = "O" -> "o"
      [] c = "W" -> "w"
      [] OTHER -> c

\* str.lower()
Lower(s) == [i \in 1..Len(s) |-> LowerChar(s[i])]

\* str.split(): the maximal runs of non-blank characters, in order
RECURSIVE SplitFrom(_, _, _)
SplitFrom(s, i, word) ==
    IF i > Len(s)
    THEN IF word = <<>> THEN <<>> ELSE <<word>>
    ELSE IF s[i] = " "
         THEN IF word = <<>>
              THEN SplitFrom(s, i + 1, <<>>)
              ELSE <<word>> \o SplitFrom(s, i + 1, <<>>)
         ELSE SplitFrom(s, i + 1, Append(word, s[i]))

Split(s) == SplitFrom(s, 1, <<>>)

Range(f) == {f[i] : i \in DOMAIN f}

\* Python's `term in text` for strings: term occurs as a contiguous substring
IsSubstring(term, text) ==
    \E i \in 0..(Len(text) - Len(term)) :
        \A k \in 1..Len(term) : text[i + k] = term[k]

\* len(content): the text and its trailing blanks
ContentLength(content) == Len(content.text) + content.pad

(***************************************************************************)
(* VectorStoreService.search: distance to a 0-100 similarity               *)
(***************************************************************************)
\* similarity = max(0, min(100, (1 - distance) * 100)), rounded to 2 places
Similarity(distance) == Max(0, Min(ScoreCap, ScoreCap - distance))

(***************************************************************************)
(* _rerank_results                                                         *)
(***************************************************************************)
\* query_terms = set(query.lower().split())
QueryTerms(q) == Range(Split(Lower(q)))

LengthBoost(content_length) ==
    IF MidLengthMin <= content_length /\ content_length <= MidLengthMax
    THEN MidLengthBoost
    ELSE IF content_length < ShortLength
         THEN ShortLengthBoost
         ELSE LengthUnit

\* sum(1 for term in query_terms if term in content_lower)
KeywordMatches(terms, content) ==
    Cardinality({t \in terms : IsSubstring(t, Lower(content.text))})

\* 1 + (keyword_matches * 0.02)
KeywordBoost(terms, content) ==
    KeywordUnit + KeywordMatches(terms, content) * KeywordStep

SectionTitleBoost(terms, section_title) ==
    IF section_title # <<>>
    THEN IF \E t \in terms : IsSubstring(t, Lower(section_title))
         THEN SectionBoost
         ELSE SectionUnit
    ELSE SectionUnit

\* round(x, 2) of the rational num / den hundredths: nearest, ties to even
RoundHundredths(num, den) ==
    LET q == num \div den
        r == num % den
    IN  IF 2 * r > den THEN q + 1
        ELSE IF 2 * r < den THEN q
        ELSE IF q % 2 = 0 THEN q ELSE q + 1

BoostUnit == LengthUnit * KeywordUnit * SectionUnit

\* FinalScore without the min(final_score, 100)
FinalScore_NoCap(hit, terms) ==
    RoundHundredths(hit.relevance_score
                    * LengthBoost(ContentLength(hit.content))
                    * KeywordBoost(terms, hit.content)
                    * SectionTitleBoost(terms, hit.section_title),
                    BoostUnit)

\* result["relevance_score"] = round(min(final_score, 100), 2)
FinalScore(hit, terms) ==
    LET product == hit.relevance_score
                   * LengthBoost(ContentLength(hit.content))
                   * KeywordBoost(terms, hit.content)
                   * SectionTitleBoost(terms, hit.section_title)
    IN  RoundHundredths(Min(product, ScoreCap * BoostUnit), BoostUnit)

Rescore(hit, terms) == [hit EXCEPT !.relevance_score = FinalScore(hit, terms)]

\* list.sort(key=relevance_score, reverse=True): stable, descending
RECURSIVE InsertDescending(_, _)
InsertDescending(sorted, hit) ==
    IF sorted = <<>> THEN <<hit>>
    ELSE IF Head(sorted).relevance_score >= hit.relevance_score
         THEN <<Head(sorted)>> \o InsertDescending(Tail(sorted), hit)
         ELSE <<hit>> \o sorted

RECURSIVE SortDescending(_)
SortDescending(hits) ==
    IF hits = <<>> THEN <<>>
    ELSE InsertDescending(SortDescending(SubSeq(hits, 1, Len(hits) - 1)),
                          hits[Len(hits)])

rerank_results(hits, q) ==
    LET terms == QueryTerms(q)
    IN  SortDescending([i \in 1..Len(hits) |-> Rescore(hits[i], terms)])

(***************************************************************************)
(* _ensure_source_diversity                                                *)
(***************************************************************************)
\* source_counts.get(doc_id, 0) for the selection built so far
SourceCount(sel, doc_id) ==
    Cardinality({i \in 1..Len(sel) : sel[i].document_id = doc_id})

\* the first loop: admit a hit while its document has fewer than
\* max_per_source admitted; stop once top_k are selected
RECURSIVE PrimaryFrom(_, _, _, _, _)
PrimaryFrom(hits, i, sel, k, mps) ==
    IF i > Len(hits) THEN sel
    ELSE LET admitted == IF SourceCount(sel, hits[i].document_id) < mps
                         THEN Append(sel, hits[i])
                         ELSE sel
         IN  IF Len(admitted) >= k THEN admitted
             ELSE PrimaryFrom(hits, i + 1, admitted, k, mps)

\* PrimaryPass admitting while current_count <= max_per_source
PrimaryPass_OffByOne(hits, k, mps) == PrimaryFrom(hits, 1, <<>>, k, mps + 1)

PrimaryPass(hits, k, mps) == PrimaryFrom(hits, 1, <<>>, k, mps)

\* `result not in selected`: list membership by dict equality
InSelection(hit, sel) == \E i \in 1..Len(sel) : sel[i] = hit

\* the second loop: append the hits not selected yet, in list order
RECURSIVE BackfillFrom(_, _, _, _)
BackfillFrom(hits, i, sel, k) ==
    IF i > Len(hits) THEN sel
    ELSE IF ~InSelection(hits[i], sel)
         THEN LET added == Append(sel, hits[i])
              IN  IF Len(added) >= k THEN added
                  ELSE BackfillFrom(hits, i + 1, added, k)
         ELSE BackfillFrom(hits, i + 1, sel, k)

\* BackfillPass without the second loop
BackfillPass_None(hits, sel, k) == sel

BackfillPass(hits, sel, k) ==
    IF Len(sel) < k THEN BackfillFrom(hits, 1, sel, k) ELSE sel

(***************************************************************************)
(* Inputs of the retrieval models                                          *)
(***************************************************************************)
Sessions == {"s1"}

Docs == {"d1", "d2"}

\* "ab" (2 characters) and "b" followed by 199 blanks (200 characters)
SlimContents ==
    { [text |-> <<"a", "b">>, pad |-> 0],
      [text |-> <<"b">>, pad |-> 199] }

\* lengths 99, 100, 200, 1000 and 1001; words "ab", "Ab", "b", "c"
RichContents ==
    { [text |-> <<"c">>, pad |-> 98],
      [text |-> <<"A", "b", " ", "b">>, pad |-> 96],
      [text |-> <<"A", "b", " ", "b">>, pad |-> 196],
      [text |-> <<"b">>, pad |-> 999],
      [text |-> <<"a", "b", " ", "c">>, pad |-> 997] }

SectionTitles == { <<>>, <<"A", "b">> }

\* "", "c", "Ab b", "b  c"
Queries ==
    { <<>>, <<"c">>, <<"A", "b", " ", "b">>, <<"b", " ", " ", "c">> }

SlimQueries == { <<"a">> }

\* a search result list comes back ordered by ascending distance; the
\* i-th hit of a slim search lies at distance (i - 1) * DistanceGap
SlimHit(i, doc, content) ==
    [id |-> i, document_id |-> doc, content |-> content,
     section_title |-> <<>>,
     relevance_score |-> Similarity((i - 1) * DistanceGap)]

SlimHits(docs, contents) ==
    [i \in DOMAIN docs |-> SlimHit(i, docs[i], contents[i])]

\* cosine distances 0 .. 2 on a grid, and one just under the top
Distances == {(i * 20000) \div DistanceSteps : i \in 0..DistanceSteps} \cup {400}

RichHit(i, distance, content, title) ==
    [id |-> i, document_id |-> "d1", content |-> content,
     section_title |-> title,
     relevance_score |-> Similarity(distance)]

Ascending(ds) == \A i \in DOMAIN ds, j \in DOMAIN ds : i < j => ds[i] <= ds[j]

RichHits(ds, contents, titles) ==
    [i \in DOMAIN ds |-> RichHit(i, ds[i], contents[i], titles[i])]

NoResponse == [status |-> 0, chunks |-> <<>>, total_results |-> 0]

\* no retrieval call in progress
RetrievalIdle ==
    /\ rpc = "idle"
    /\ session_id = "none"
    /\ query = <<>>
    /\ top_k = 1
    /\ max_per_source = DefaultMaxPerSource
    /\ results = <<>>
    /\ selected = <<>>
    /\ response = NoResponse

(***************************************************************************)
(* retrieve_chunks, step by step                                           *)
(***************************************************************************)
\* session missing: HTTP 404
RetrieveNotFound ==
    /\ rpc = "request"
    /\ session_id \notin Sessions
    /\ response' = [status |-> 404, chunks |-> <<>>, total_results |-> 0]
    /\ rpc' = "done"
    /\ UNCHANGED <<session_id, query, top_k, max_per_source, results, selected>>
    /\ UNCHANGED NotRetrieval

\* vector_store.search(top_k = min(top_k * 2, 50)); an empty result is
\* answered at once
Search ==
    /\ rpc = "request"
    /\ session_id \in Sessions
    /\ \E n \in 0..Min(Min(top_k * OversampleFactor, InitialTopKCap), MaxHits) :
         \E docs \in [1..n -> Docs], contents \in [1..n -> SlimContents] :
            /\ results' = SlimHits(docs, contents)
            /\ IF n = 0
               THEN /\ response' = [status |-> 200, chunks |-> <<>>,
                                    total_results |-> 0]
                    /\ rpc' = "done"
               ELSE /\ response' = response
                    /\ rpc' = "searched"
    /\ max_per_source' = DefaultMaxPerSource
    /\ UNCHANGED <<session_id, query, top_k, selected>>
    /\ UNCHANGED NotRetrieval

\* reranked = _rerank_results(results, request.query, embedding_service)
Rerank ==
    /\ rpc = "searched"
    /\ results' = rerank_results(results, query)
    /\ rpc' = "reranked"
    /\ UNCHANGED <<session_id, query, top_k, max_per_source, selected, response>>
    /\ UNCHANGED NotRetrieval

\* _ensure_source_diversity, first loop (an empty list returns [] at once)
Primary ==
    /\ rpc = "reranked"
    /\ IF results = <<>>
       THEN /\ selected' = <<>>
            /\ rpc' = "diversified"
       ELSE /\ selected' = PrimaryPass(results, top_k, max_per_source)
            /\ rpc' = "primary"
    /\ UNCHANGED <<session_id, query, top_k, max_per_source, results, response>>
    /\ UNCHANGED NotRetrieval

\* _ensure_source_diversity, second loop and return
Backfill ==
    /\ rpc = "primary"
    /\ selected' = BackfillPass(results, selected, top_k)
    /\ rpc' = "diversified"
    /\ UNCHANGED <<session_id, query, top_k, max_per_source, results, response>>
    /\ UNCHANGED NotRetrieval

\* chunks = diversified[:top_k]; total_results = len(chunks)
Respond ==
    /\ rpc = "diversified"
    /\ session_id \in Sessions
    /\ LET chunks == SubSeq(selected, 1, Min(top_k, Len(selected)))
       IN  response' = [status |-> 200, chunks |-> chunks,
                        total_results |-> Len(chunks)]
    /\ rpc' = "done"
    /\ UNCHANGED <<session_id, query, top_k, max_per_source, results, selected>>
    /\ UNCHANGED NotRetrieval

(***************************************************************************)
(* Claims (models/schemas.py: Claim) as extract_claims builds them         *)
(***************************************************************************)
SourceOrder == <<"s1", "s2", "s3">>

SourceIds == Range(SourceOrder)

\* list(set(...)): the members once each (in a fixed order; Python's is
\* unspecified and nothing reads it)
RECURSIVE ListOfSetFrom(_, _)
ListOfSetFrom(set, k) ==
    IF k > Len(SourceOrder) THEN <<>>
    ELSE IF SourceOrder[k] \in set
         THEN <<SourceOrder[k]>> \o ListOfSetFrom(set, k + 1)
         ELSE ListOfSetFrom(set, k + 1)

ListOfSet(set) == ListOfSetFrom(set, 1)

\* a new claim that starts with a contradicting source
NewClaim_Contradicted(id, confidence, source_ids) ==
    [id |-> id, type |-> "uncertain", confidence |-> confidence,
     supporting_sources |-> Len(source_ids), contradicting_sources |-> 1,
     source_ids |-> source_ids]

\* Claim(id=..., type=ClaimType.UNCERTAIN, confidence=claim_data.confidence,
\*       supporting_sources=len(source_ids), contradicting_sources=0, ...)
NewClaim(id, confidence, source_ids) ==
    [id |-> id, type |-> "uncertain", confidence |-> confidence,
     supporting_sources |-> Len(source_ids), contradicting_sources |-> 0,
     source_ids |-> source_ids]

(***************************************************************************)
(* ClaimExtractorService._deduplicate_claims                               *)
(***************************************************************************)
\* similarity >= similarity_threshold for the claims at positions i and j
IsSimilar(cl, sim, i, j) == {cl[i].id, cl[j].id} \in sim

\* claims[j].confidence > claims[i].confidence or
\* len(claims[j].source_ids) > len(claims[i].source_ids)
SecondWins(cl, i, j) ==
    \/ cl[j].confidence > cl[i].confidence
    \/ Len(cl[j].source_ids) > Len(cl[i].source_ids)

\* list(set(winner.source_ids + loser.source_ids))
MergedSources(winner, loser) ==
    ListOfSet(Range(winner.source_ids) \cup Range(loser.source_ids))

\* keep_indices.discard(loser); the winner takes the merged source_ids
Drop(st, winner, loser, i, j) ==
    [claims |-> [st.claims EXCEPT ![winner].source_ids =
                     MergedSources(st.claims[winner], st.claims[loser])],
     keep |-> st.keep \ {loser},
     log |-> Append(st.log, [i |-> i, j |-> j, similar |-> TRUE,
                             i_live |-> i \in st.keep,
                             kept |-> winner, dropped |-> loser])]

NoDrop(st, i, j) ==
    [st EXCEPT !.log = Append(st.log, [i |-> i, j |-> j, similar |-> FALSE,
                                        i_live |-> i \in st.keep,
                                        kept |-> 0, dropped |-> 0])]

\* the inner loop's index after claims[j] was dropped: the loop goes on
AfterDropSecond_Break(j, n) == n + 1

AfterDropSecond(j, n) == j + 1

RECURSIVE DedupOuter(_, _, _)
RECURSIVE DedupInner(_, _, _, _)
\* for i in range(len(claims)): if i not in keep_indices: continue
DedupOuter(st, sim, i) ==
    IF i > Len(st.claims) THEN st
    ELSE IF i \notin st.keep THEN DedupOuter(st, sim, i + 1)
    ELSE DedupInner(st, sim, i, i + 1)

\* for j in range(i + 1, len(claims)): if j not in keep_indices: continue
DedupInner(st, sim, i, j) ==
    IF j > Len(st.claims) THEN DedupOuter(st, sim, i + 1)
    ELSE IF j \notin st.keep THEN DedupInner(st, sim, i, j + 1)
    ELSE IF IsSimilar(st.claims, sim, i, j)
         THEN IF SecondWins(st.claims, i, j)
              THEN DedupInner(Drop(st, j, i, i, j), sim, i, j + 1)
              ELSE DedupInner(Drop(st, i, j, i, j), sim, i,
                              AfterDropSecond(j, Len(st.claims)))
         ELSE DedupInner(NoDrop(st, i, j), sim, i, j + 1)

\* [claims[i] for i in sorted(keep_indices)]
RECURSIVE KeptFrom(_, _, _)
KeptFrom(cl, keep, i) ==
    IF i > Len(cl) THEN <<>>
    ELSE IF i \in keep THEN <<cl[i]>> \o KeptFrom(cl, keep, i + 1)
         ELSE KeptFrom(cl, keep, i + 1)

\* the whole function: the mutated list, the kept indices, the comparisons
deduplicate_claims(cl, sim) ==
    IF Len(cl) <= 1
    THEN [claims |-> cl, keep |-> 1..Len(cl), log |-> <<>>]
    ELSE DedupOuter([claims |-> cl, keep |-> 1..Len(cl), log |-> <<>>], sim, 1)

(***************************************************************************)
(* De-duplication: the calls                                               *)
(***************************************************************************)
Confidences == {60, 80}

SourceIdLists == { <<"s1">>, <<"s2">>, <<"s1", "s2">> }

ClaimIds == 1..MaxClaims

\* unordered pairs of claim ids
IdPairs(n) == {{a, b} : a \in 1..n, b \in 1..n} \ {{a} : a \in 1..n}

\* no de-duplication in progress
DedupIdle ==
    /\ dpc = "idle"
    /\ dedup_pass = 0
    /\ claims = <<>>
    /\ similar = {}
    /\ dedup_in = <<>>
    /\ deduped = <<>>
    /\ comparisons = <<>>

\* deduped_claims = await self._deduplicate_claims(claims)
Deduplicate ==
    /\ dpc = "call"
    /\ LET out == deduplicate_claims(claims, similar)
       IN  /\ claims' = out.claims
           /\ deduped' = KeptFrom(out.claims, out.keep, 1)
           /\ comparisons' = out.log
    /\ dpc' = "returned"
    /\ UNCHANGED <<dedup_pass, similar, dedup_in>>
    /\ UNCHANGED NotDedup

\* _deduplicate_claims called again on the list it returned
DeduplicateAgain ==
    /\ dpc = "returned"
    /\ dedup_pass = 1
    /\ dedup_pass' = 2
    /\ claims' = deduped
    /\ dedup_in' = deduped
    /\ deduped' = <<>>
    /\ comparisons' = <<>>
    /\ dpc' = "call"
    /\ UNCHANGED similar
    /\ UNCHANGED NotDedup

(***************************************************************************)
(* ClaimExtractorService.classify_claims                                   *)
(***************************************************************************)
\* _default_classification with > in place of >= on the second confidence
default_classification_Strict(claim) ==
    LET source_count == Len(claim.source_ids)
    IN  IF source_count >= StrongSources /\ claim.confidence >= StrongConfidence
        THEN "consensus"
        ELSE IF source_count >= SomeSources /\ claim.confidence > SomeConfidence
             THEN "consensus"
             ELSE IF claim.contradicting_sources > 0
                  THEN "disagreement"
                  ELSE "uncertain"

\* _default_classification
default_classification(claim) ==
    LET source_count == Len(claim.source_ids)
    IN  IF source_count >= StrongSources /\ claim.confidence >= StrongConfidence
        THEN "consensus"
        ELSE IF source_count >= SomeSources /\ claim.confidence >= SomeConfidence
             THEN "consensus"
             ELSE IF claim.contradicting_sources > 0
                  THEN "disagreement"
                  ELSE "uncertain"

ClaimTypes == {"consensus", "disagreement", "uncertain"}

\* c.get(field, default) on an entry of the response; an entry is a JSON
\* object with the fields named in `present`
Get(entry, field, default) ==
    IF field \in entry.present THEN entry[field] ELSE default

\* ClassificationSchema: pattern, ge and le of the fields
SchemaAccepts(type, supporting, contradicting, confidence) ==
    /\ type \in ClaimTypes
    /\ supporting >= 0
    /\ contradicting >= 0
    /\ confidence >= 0
    /\ confidence <= MaxConfidence

RequiredFields ==
    {"claim_id", "type", "supporting_sources", "contradicting_sources", "confidence"}

\* ClassificationSchema(**entry) of strict validation: every required field
\* is there and valid
StrictlyValid(entry) ==
    /\ entry.dict
    /\ RequiredFields \subseteq entry.present
    /\ SchemaAccepts(entry.type, entry.supporting_sources,
                     entry.contradicting_sources, entry.confidence)

Parsed(entry, claim_id, type, supporting, contradicting, confidence) ==
    [claim_id |-> claim_id, type |-> type, supporting_sources |-> supporting,
     contradicting_sources |-> contradicting, confidence |-> confidence]

\* ClassificationResponseSchema(**raw_result): the list, or the exception
ValidateResponse(raw) ==
    IF raw.kind # "object" THEN [exception |-> "TypeError", list |-> <<>>]
    ELSE IF raw.classifications.kind = "list"
            /\ \A k \in DOMAIN raw.classifications.items :
                  StrictlyValid(raw.classifications.items[k])
         THEN [exception |-> "none",
               list |-> [k \in DOMAIN raw.classifications.items |->
                   LET e == raw.classifications.items[k]
                   IN  Parsed(e, e.claim_id, e.type, e.supporting_sources,
                              e.contradicting_sources, e.confidence)]]
         ELSE [exception |-> "ValidationError", list |-> <<>>]

\* LenientEntry without the schema check
LenientEntry_Unchecked(entry) ==
    IF ~entry.dict THEN <<>>
    ELSE <<Parsed(entry, Get(entry, "claim_id", 0),
                  Get(entry, "type", "uncertain"),
                  Get(entry, "supporting_sources", 0),
                  Get(entry, "contradicting_sources", 0),
                  Get(entry, "confidence", DefaultConfidence))>>

\* one entry of _parse_raw_classifications: defaults, then the schema; an
\* entry that is no object or fails the schema is skipped
LenientEntry(entry) ==
    IF ~entry.dict THEN <<>>
    ELSE LET type == Get(entry, "type", "uncertain")
             supporting == Get(entry, "supporting_sources", 0)
             contradicting == Get(entry, "contradicting_sources", 0)
             confidence == Get(entry, "confidence", DefaultConfidence)
         IN  IF SchemaAccepts(type, supporting, contradicting, confidence)
             THEN <<Parsed(entry, Get(entry, "claim_id", 0), type, supporting,
                           contradicting, confidence)>>
             ELSE <<>>

RECURSIVE LenientFrom(_, _)
LenientFrom(items, k) ==
    IF k > Len(items) THEN <<>>
    ELSE LenientEntry(items[k]) \o LenientFrom(items, k + 1)

\* _parse_raw_classifications: raw_result.get("classifications", []); a
\* value that cannot be iterated raises TypeError
parse_raw_classifications(raw) ==
    CASE raw.classifications.kind = "absent" -> [exception |-> "none", list |-> <<>>]
      [] raw.classifications.kind = "null" -> [exception |-> "TypeError", list |-> <<>>]
      [] OTHER -> [exception |-> "none",
                   list |-> LenientFrom(raw.classifications.items, 1)]

\* classification_lookup = {c.claim_id: c for c in classifications}: the
\* last entry of an id
HasEntry(list, id) == \E k \in DOMAIN list : list[k].claim_id = id

Lookup(list, id) ==
    list[CHOOSE k \in DOMAIN list :
            /\ list[k].claim_id = id
            /\ \A m \in DOMAIN list : list[m].claim_id = id => m <= k]

\* the update loop also taking the entry's sources for the claim's
UpdateClaim_Sources(claim, list) ==
    IF HasEntry(list, claim.id)
    THEN [claim EXCEPT !.type = Lookup(list, claim.id).type,
                       !.confidence = Lookup(list, claim.id).confidence,
                       !.source_ids = <<>>]
    ELSE [claim EXCEPT !.type = default_classification(claim)]

\* the loop over the claims: the entry's type, counts and confidence, or
\* the default type
UpdateClaim(claim, list) ==
    IF HasEntry(list, claim.id)
    THEN LET cls == Lookup(list, claim.id)
         IN  [claim EXCEPT
                 !.type = IF cls.type \in ClaimTypes THEN cls.type
                          ELSE default_classification(claim),
                 !.supporting_sources = cls.supporting_sources,
                 !.contradicting_sources = cls.contradicting_sources,
                 !.confidence = cls.confidence]
    ELSE [claim EXCEPT !.type = default_classification(claim)]

\* the except branch: every claim gets the default type
FallbackAll(cl) ==
    [k \in DOMAIN cl |-> [cl[k] EXCEPT !.type = default_classification(cl[k])]]

\* the body of the try: the exception it ends with ("none": it returned)
\* and the claims
TryClassify(cl, outcome) ==
    CASE outcome.kind = "error" -> [exception |-> "APIError", claims |-> cl]
      [] outcome.kind = "text" -> [exception |-> "JSONDecodeError", claims |-> cl]
      [] OTHER ->
          LET strict == ValidateResponse(outcome)
              parsed == IF strict.exception = "ValidationError"
                        THEN parse_raw_classifications(outcome)
                        ELSE strict
          IN  IF parsed.exception # "none"
              THEN [exception |-> parsed.exception, claims |-> cl]
              ELSE [exception |-> "none",
                    claims |-> [k \in DOMAIN cl |-> UpdateClaim(cl[k], parsed.list)]]

\* the whole function; `except Exception` catches whatever the try raised
classify_claims(cl, outcome) ==
    IF cl = <<>> THEN [raised |-> "none", called_llm |-> FALSE, claims |-> <<>>]
    ELSE LET attempt == TryClassify(cl, outcome)
         IN  IF attempt.exception = "none"
             THEN [raised |-> "none", called_llm |-> TRUE, claims |-> attempt.claims]
             ELSE [raised |-> "none", called_llm |-> TRUE,
                   claims |-> FallbackAll(attempt.claims)]

(***************************************************************************)
(* Classification: the calls                                               *)
(***************************************************************************)
StoredClaim(id, type, confidence, supporting, contradicting, source_ids) ==
    [id |-> id, type |-> type, confidence |-> confidence,
     supporting_sources |-> supporting, contradicting_sources |-> contradicting,
     source_ids |-> source_ids]

\* claims fresh from extraction, and one stored after an earlier pass
ClaimProfiles(id) ==
    { NewClaim(id, 75, <<"s1">>),
      NewClaim(id, 60, <<"s1", "s2">>),
      StoredClaim(id, "disagreement", 50, 1, 1, <<"s1">>) }

\* every source count, confidences around the thresholds, with and
\* without contradicting sources
FallbackConfidences ==
    {0, SomeConfidence - 1, SomeConfidence, StrongConfidence - 1,
     StrongConfidence, 75, MaxConfidence}

FallbackProfiles(id) ==
    { StoredClaim(id, type, confidence, Len(srcs), contradicting, srcs) :
        type \in {"uncertain", "consensus"},
        confidence \in FallbackConfidences,
        contradicting \in {0, 1},
        srcs \in {<<"s1">>, <<"s1", "s2">>, <<"s1", "s2", "s3">>} }

Entry(claim_id, present, type, supporting, contradicting, confidence) ==
    [dict |-> TRUE, present |-> present, claim_id |-> claim_id, type |-> type,
     supporting_sources |-> supporting, contradicting_sources |-> contradicting,
     confidence |-> confidence]

\* an entry of the response that is not a JSON object
Junk == [dict |-> FALSE, present |-> {}, claim_id |-> 0, type |-> "",
         supporting_sources |-> 0, contradicting_sources |-> 0, confidence |-> 0]

UnknownId == 99

\* entries for a claim id: two valid ones, one with confidence 150, one
\* with an unknown type, one with a negative count, one without type and
\* confidence
EntriesFor(id) ==
    { Entry(id, RequiredFields, "consensus", 3, 0, 90),
      Entry(id, RequiredFields, "disagreement", 1, 2, 40),
      Entry(id, RequiredFields, "consensus", 2, 0, 150),
      Entry(id, RequiredFields, "bogus", 2, 0, 80),
      Entry(id, RequiredFields, "uncertain", 0 - 1, 0, 30),
      Entry(id, {"claim_id", "supporting_sources", "contradicting_sources"},
            "", 1, 0, 0) }

Entries(n) == UNION {EntriesFor(id) : id \in (1..n) \cup {UnknownId}} \cup {Junk}

\* what the LLM call can do: raise, return text that is no JSON, return a
\* JSON array, or return an object with or without a classifications list
LLMOutcomes(n) ==
    { [kind |-> "error", classifications |-> [kind |-> "absent", items |-> <<>>]],
      [kind |-> "text", classifications |-> [kind |-> "absent", items |-> <<>>]],
      [kind |-> "array", classifications |-> [kind |-> "absent", items |-> <<>>]],
      [kind |-> "object", classifications |-> [kind |-> "absent", items |-> <<>>]],
      [kind |-> "object", classifications |-> [kind |-> "null", items |-> <<>>]] }

FailingOutcomes(n) == {o \in LLMOutcomes(n) : o.kind # "object"}

NoOutcome == [kind |-> "none", classifications |-> [kind |-> "absent", items |-> <<>>]]

\* no classification in progress
ClassifyIdle ==
    /\ kpc = "idle"
    /\ batch = <<>>
    /\ llm = NoOutcome
    /\ classify_in = <<>>
    /\ classify_out = "none"

\* classified = await claim_extractor.classify_claims(claims, sources)
Classify ==
    /\ kpc = "call"
    /\ LET out == classify_claims(batch, llm)
       IN  /\ batch' = out.claims
           /\ classify_out' = IF out.raised = "none" THEN "returned" ELSE out.raised
    /\ kpc' = "done"
    /\ UNCHANGED <<llm, classify_in>>
    /\ UNCHANGED NotClassify

(***************************************************************************)
(* SynthesizerService.synthesize                                           *)
(***************************************************************************)
Take(seq, n) == SubSeq(seq, 1, Min(n, Len(seq)))

OfType(cl, type) == SelectSeq(cl, LAMBDA c : c.type = type)

\* list.sort(key=lambda c: c.confidence, reverse=True): stable, equal
\* confidences keep their order
RECURSIVE InsertByConfidence(_, _)
InsertByConfidence(sorted, c) ==
    IF sorted = <<>> THEN <<c>>
    ELSE IF Head(sorted).confidence >= c.confidence
         THEN <<Head(sorted)>> \o InsertByConfidence(Tail(sorted), c)
         ELSE <<c>> \o sorted

\* the sort left out: the claims in input order
SortByConfidence_None(cl) == cl

RECURSIVE SortByConfidence(_)
SortByConfidence(cl) ==
    IF cl = <<>> THEN <<>>
    ELSE InsertByConfidence(SortByConfidence(SubSeq(cl, 1, Len(cl) - 1)),
                            cl[Len(cl)])

ResearchBrief(sources, consensus, disagreements, questions, level, score, limitations) ==
    [sources |-> sources, consensus |-> consensus,
     disagreements |-> disagreements, open_questions |-> questions,
     confidence_level |-> level, confidence_score |-> score,
     limitations |-> limitations]

\* _empty_brief
empty_brief(sources) ==
    ResearchBrief(sources, <<>>, <<>>,
                  <<[question |-> "What evidence exists in the provided sources?",
                     related_claim_ids |-> <<>>]>>,
                  "low", EmptyScore,
                  <<"No claims could be extracted from the provided sources",
                    "The research question may not be addressed by these documents",
                    "Try uploading more relevant sources or refining the query">>)

\* the items _fallback_synthesis builds from claims
ConsensusOfClaim(claim) ==
    [statement |-> claim.id, confidence |-> claim.confidence,
     sources |-> claim.supporting_sources, source_ids |-> claim.source_ids]

DisagreementOfClaim(claim) ==
    [claim |-> claim.id,
     sources |-> claim.supporting_sources + claim.contradicting_sources,
     source_ids |-> claim.source_ids]

QuestionOfClaim(claim) ==
    [question |-> claim.id, related_claim_ids |-> <<claim.id>>]

\* FallbackLevel with >= in place of > on the consensus ratio
FallbackLevel_AtLeast(consensus, disagreement, total) ==
    IF RatioUnit * consensus >= HighConsensus * total
       /\ RatioUnit * disagreement < LowDisagreement * total
    THEN "high"
    ELSE IF RatioUnit * disagreement > HighDisagreement * total
         THEN "low"
         ELSE "medium"

\* confidence metrics of _fallback_synthesis; the ratios compared in fifths
FallbackLevel(consensus, disagreement, total) ==
    IF RatioUnit * consensus > HighConsensus * total
       /\ RatioUnit * disagreement < LowDisagreement * total
    THEN "high"
    ELSE IF RatioUnit * disagreement > HighDisagreement * total
         THEN "low"
         ELSE "medium"

LevelScore(level) ==
    CASE level = "high" -> HighScore
      [] level = "low" -> LowScore
      [] OTHER -> MediumScore

FallbackLimitations(sources) ==
    <<"Analysis based on the sources", "Extracted claims through automated processing",
      "Confidence levels are approximations",
      "Some nuanced arguments may not be fully captured">>
    \o (IF sources < CoverageSources
        THEN <<"Limited source coverage may affect comprehensiveness">>
        ELSE <<>>)

\* _fallback_synthesis
fallback_synthesis(cl, sources) ==
    LET consensus_claims == SortByConfidence(OfType(cl, "consensus"))
        disagreement_claims == SortByConfidence(OfType(cl, "disagreement"))
        uncertain_claims == OfType(cl, "uncertain")
        level == FallbackLevel(Len(consensus_claims), Len(disagreement_claims),
                               Len(cl))
        few == sources < FewSources
        firstN(list, n) == Take(list, n)
    IN  ResearchBrief(
            sources,
            [k \in DOMAIN firstN(consensus_claims, ConsensusCap) |->
                ConsensusOfClaim(consensus_claims[k])],
            [k \in DOMAIN firstN(disagreement_claims, DisagreementCap) |->
                DisagreementOfClaim(disagreement_claims[k])],
            [k \in DOMAIN firstN(uncertain_claims, QuestionCap) |->
                QuestionOfClaim(uncertain_claims[k])],
            IF few /\ level = "high" THEN "medium" ELSE level,
            IF few THEN Min(LevelScore(level), FewSourcesScore) ELSE LevelScore(level),
            FallbackLimitations(sources))

ConfidenceLevels == {"high", "medium", "low"}

\* raw_result.get(field, default)
RawGet(raw, field, default) ==
    IF field \in raw.present THEN raw[field] ELSE default

AllValid(items) == \A k \in DOMAIN items : items[k].dict /\ items[k].valid

\* SynthesisResponseSchema(...): the pattern and range of the scalars, and
\* the limitations validator
Validated(consensus, disagreements, questions, limitations, level, score) ==
    IF level \in ConfidenceLevels /\ score >= 0 /\ score <= MaxConfidence
    THEN [exception |-> "none", consensus |-> consensus,
          disagreements |-> disagreements, open_questions |-> questions,
          limitations |-> Take(limitations, LimitationCap),
          overall_confidence |-> level, confidence_score |-> score]
    ELSE [exception |-> "ValidationError", consensus |-> <<>>,
          disagreements |-> <<>>, open_questions |-> <<>>, limitations |-> <<>>,
          overall_confidence |-> "medium", confidence_score |-> DefaultScore]

SynthesisError(exception) ==
    [exception |-> exception, consensus |-> <<>>, disagreements |-> <<>>,
     open_questions |-> <<>>, limitations |-> <<>>,
     overall_confidence |-> "medium", confidence_score |-> DefaultScore]

\* SynthesisResponseSchema(**raw_result)
ValidateSynthesis(raw) ==
    IF raw.kind # "object" THEN SynthesisError("TypeError")
    ELSE IF /\ AllValid(RawGet(raw, "consensus", <<>>))
            /\ AllValid(RawGet(raw, "disagreements", <<>>))
            /\ AllValid(RawGet(raw, "open_questions", <<>>))
         THEN Validated(RawGet(raw, "consensus", <<>>),
                        RawGet(raw, "disagreements", <<>>),
                        RawGet(raw, "open_questions", <<>>),
                        RawGet(raw, "limitations", <<>>),
                        RawGet(raw, "overall_confidence", "medium"),
                        RawGet(raw, "confidence_score", DefaultScore))
         ELSE SynthesisError("ValidationError")

\* [Schema(**c) for c in items if isinstance(c, dict) and c.get(key)]
Named(items) == SelectSeq(items, LAMBDA c : c.dict /\ c.named)

\* _parse_partial_synthesis: an item that passes the filter and fails its
\* schema raises
parse_partial_synthesis(raw) ==
    LET consensus == Named(RawGet(raw, "consensus", <<>>))
        disagreements == Named(RawGet(raw, "disagreements", <<>>))
        open_questions == Named(RawGet(raw, "open_questions", <<>>))
    IN  IF AllValid(consensus) /\ AllValid(disagreements) /\ AllValid(open_questions)
        THEN Validated(Take(consensus, ConsensusCap),
                       Take(disagreements, DisagreementCap),
                       Take(open_questions, QuestionCap),
                       Take(RawGet(raw, "limitations", <<>>), LimitationCap),
                       RawGet(raw, "overall_confidence", "medium"),
                       RawGet(raw, "confidence_score", DefaultScore))
        ELSE SynthesisError("ValidationError")

\* _build_brief
build_brief(sources, synthesis) ==
    ResearchBrief(
        sources,
        [k \in DOMAIN synthesis.consensus |->
            [statement |-> synthesis.consensus[k].ref, source_ids |-> <<>>]],
        [k \in DOMAIN synthesis.disagreements |->
            [claim |-> synthesis.disagreements[k].ref, source_ids |-> <<>>]],
        [k \in DOMAIN synthesis.open_questions |->
            [question |-> synthesis.open_questions[k].ref,
             related_claim_ids |-> <<>>]],
        IF synthesis.overall_confidence \in ConfidenceLevels
        THEN synthesis.overall_confidence ELSE "medium",
        synthesis.confidence_score,
        synthesis.limitations)

\* no brief was built
NoBrief == ResearchBrief(0, <<>>, <<>>, <<>>, "", 0, <<>>)

\* the body of the try of synthesize: the exception it ends with, the
\* chat completions it requested and the brief
TrySynthesize(sources, outcome) ==
    CASE outcome.kind = "nokey" ->
            [exception |-> "ValueError", calls |-> 0, brief |-> NoBrief]
      [] outcome.kind = "error" ->
            [exception |-> "APIError", calls |-> 1, brief |-> NoBrief]
      [] outcome.kind = "text" ->
            [exception |-> "JSONDecodeError", calls |-> 1, brief |-> NoBrief]
      [] OTHER ->
          LET strict == ValidateSynthesis(outcome)
              validated == IF strict.exception = "ValidationError"
                           THEN parse_partial_synthesis(outcome)
                           ELSE strict
          IN  [exception |-> validated.exception, calls |-> 1,
               brief |-> IF validated.exception = "none"
                         THEN build_brief(sources, validated)
                         ELSE NoBrief]

\* the handler catching only what parsing and validation raise
SynthesisHandler_Narrow(attempt, cl, sources) ==
    IF attempt.exception = "none"
    THEN [raised |-> "none", calls |-> attempt.calls, brief |-> attempt.brief]
    ELSE IF attempt.exception \in {"JSONDecodeError", "ValidationError", "TypeError"}
         THEN [raised |-> "none", calls |-> attempt.calls,
               brief |-> fallback_synthesis(cl, sources)]
         ELSE [raised |-> attempt.exception, calls |-> attempt.calls,
               brief |-> NoBrief]

\* the end of the try of synthesize: return brief, or `except Exception`
\* with the fallback synthesis
SynthesisHandler(attempt, cl, sources) ==
    IF attempt.exception = "none"
    THEN [raised |-> "none", calls |-> attempt.calls, brief |-> attempt.brief]
    ELSE [raised |-> "none", calls |-> attempt.calls,
          brief |-> fallback_synthesis(cl, sources)]

\* synthesize without the check for an empty claim list
synthesize_Unchecked(cl, sources, outcome) ==
    SynthesisHandler(TrySynthesize(sources, outcome), cl, sources)

\* synthesize
synthesize(cl, sources, outcome) ==
    IF cl = <<>>
    THEN [raised |-> "none", calls |-> 0, brief |-> empty_brief(sources)]
    ELSE SynthesisHandler(TrySynthesize(sources, outcome), cl, sources)

(***************************************************************************)
(* Synthesis: the calls                                                    *)
(***************************************************************************)
\* classified claims: a type, a confidence, and the counts that go with it
SynthProfiles(id) ==
    { StoredClaim(id, "consensus", 80, 2, 0, <<"s1", "s2">>),
      StoredClaim(id, "consensus", 60, 2, 0, <<"s1", "s2">>),
      StoredClaim(id, "disagreement", 80, 1, 1, <<"s1">>),
      StoredClaim(id, "disagreement", 60, 1, 2, <<"s1">>),
      StoredClaim(id, "uncertain", 60, 1, 0, <<"s2">>) }

SourceCounts == {0, 2, 3, 5}

\* one claim of each type
TypeProfiles(id) ==
    { StoredClaim(id, "consensus", 80, 2, 0, <<"s1", "s2">>),
      StoredClaim(id, "disagreement", 60, 1, 1, <<"s1">>),
      StoredClaim(id, "uncertain", 60, 1, 0, <<"s2">>) }

\* items of a list of the response: well formed; with its key field and
\* failing the schema; without its key field; not an object
Item(ref, dict, named, valid) ==
    [ref |-> ref, dict |-> dict, named |-> named, valid |-> valid]

GoodItems(n) == [k \in 1..n |-> Item(k, TRUE, TRUE, TRUE)]

ItemLists ==
    { GoodItems(n) : n \in {0, 1, MaxLLMItems} }
    \cup { <<Item(1, TRUE, TRUE, TRUE), Item(2, TRUE, FALSE, FALSE)>>,
           <<Item(1, FALSE, FALSE, FALSE), Item(2, TRUE, TRUE, TRUE)>>,
           <<Item(1, TRUE, TRUE, FALSE), Item(2, TRUE, TRUE, TRUE)>> }

SynthFields ==
    {"consensus", "disagreements", "open_questions", "limitations",
     "overall_confidence", "confidence_score"}

Response(present, consensus, rest, limitations, level, score) ==
    [kind |-> "object", present |-> present, consensus |-> consensus,
     disagreements |-> rest, open_questions |-> rest,
     limitations |-> [k \in 1..limitations |-> k],
     overall_confidence |-> level, confidence_score |-> score]

NoResponseBody(kind) ==
    [kind |-> kind, present |-> {}, consensus |-> <<>>, disagreements |-> <<>>,
     open_questions |-> <<>>, limitations |-> <<>>,
     overall_confidence |-> "", confidence_score |-> 0]

\* what the LLM call of synthesize can do: no API key, an exception, text
\* that is no JSON, a JSON array, a JSON object
SynthOutcomes ==
    { NoResponseBody(kind) : kind \in {"nokey", "error", "text", "array"} }
    \cup { Response(SynthFields, consensus, rest, MaxLLMItems, level, 72) :
             consensus \in ItemLists,
             rest \in {<<>>, GoodItems(MaxLLMItems)},
             level \in {"high", "low", "bogus"} }
    \cup { Response({"consensus", "disagreements", "open_questions"},
                    consensus, <<>>, 0, "", 0) : consensus \in ItemLists }
    \cup { Response(SynthFields, GoodItems(1), <<>>, 1, "low", 150) }

\* the outcomes with which the LLM call itself fails
FailedCalls == { NoResponseBody(kind) : kind \in {"nokey", "error"} }

\* no synthesis in progress
SynthesisIdle ==
    /\ spc = "idle"
    /\ synth_claims = <<>>
    /\ synth_sources = 0
    /\ synth_llm = NoResponseBody("none")
    /\ llm_calls = 0
    /\ brief = NoBrief
    /\ synth_out = "none"

\* brief = await synthesizer.synthesize(session_id, query, claims, sources)
Synthesize ==
    /\ spc = "call"
    /\ LET out == synthesize(synth_claims, synth_sources, synth_llm)
       IN  /\ brief' = out.brief
           /\ llm_calls' = llm_calls + out.calls
           /\ synth_out' = IF out.raised = "none" THEN "returned" ELSE out.raised
    /\ spc' = "done"
    /\ UNCHANGED <<synth_claims, synth_sources, synth_llm>>
    /\ UNCHANGED NotSynthesis

(***************************************************************************)
(* _expand_query                                                           *)
(***************************************************************************)
\* str.isupper() on one character
IsUpperChar(c) == c \in {"A", "B", "C", "H", "O", "W"}

\* " ".join(words)
RECURSIVE Join(_)
Join(words) ==
    IF words = <<>> THEN <<>>
    ELSE IF Len(words) = 1 THEN words[1]
         ELSE words[1] \o <<" ">> \o Join(Tail(words))

question_words ==
    { <<"w", "h", "a", "t">>, <<"h", "o", "w">>, <<"w", "h", "y">>,
      <<"w", "h", "e", "n">>, <<"w", "h", "e", "r", "e">>,
      <<"w", "h", "i", "c", "h">>, <<"w", "h", "o">>, <<"i", "s">>,
      <<"a", "r", "e">>, <<"d", "o", "e", "s">>, <<"d", "o">> }

\* [w for w in words if w not in question_words and len(w) > 2]
filtered_words(q) ==
    SelectSeq(Split(Lower(q)),
              LAMBDA w : w \notin question_words /\ Len(w) > MinWordLength)

\* the words of the query that start with a capital and have len(word) > 2
key_terms(q) ==
    SelectSeq(Split(q), LAMBDA w : IsUpperChar(w[1]) /\ Len(w) > MinWordLength)

\* queries after the keyword variant
WithKeywords(q) ==
    IF filtered_words(q) # <<>> /\ Join(filtered_words(q)) # Lower(q)
    THEN <<q, Join(filtered_words(q))>>
    ELSE <<q>>

\* the term variant appended although it is in the list already
WithTerms_Unchecked(q, list) ==
    IF key_terms(q) # <<>> THEN Append(list, Join(key_terms(q))) ELSE list

\* queries after the key-term variant
WithTerms(q, list) ==
    IF key_terms(q) # <<>> /\ Join(key_terms(q)) \notin Range(list)
    THEN Append(list, Join(key_terms(q)))
    ELSE list

\* _expand_query
expand_query(q) == SubSeq(WithTerms(q, WithKeywords(q)), 1,
                          Min(MaxVariants, Len(WithTerms(q, WithKeywords(q)))))

\* characters of the queries: letters of a question word (how, who), of a
\* word that is none (wow), a capital and the blank
QueryChars == {"h", "o", "w", "W", " "}

NoQueries == <<>>

\* no expansion in progress
ExpandIdle ==
    /\ epc = "idle"
    /\ expand_in = <<>>
    /\ queries = NoQueries

\* queries = _expand_query(request.query)
Expand ==
    /\ epc = "call"
    /\ queries' = expand_query(expand_in)
    /\ epc' = "done"
    /\ UNCHANGED expand_in
    /\ UNCHANGED NotExpand

(***************************************************************************)
(* ClaimExtractorService.extract_claims                                    *)
(***************************************************************************)
\* ExtractedClaimSchema: statement of 10 to 500 characters, at least one
\* source id, confidence in 0..100
ExtractSchemaAccepts(statement_ok, source_ids, confidence) ==
    /\ statement_ok
    /\ Len(source_ids) >= 1
    /\ confidence >= 0
    /\ confidence <= MaxConfidence

ExtractRequired == {"statement", "source_ids", "confidence"}

ExtractedData(entry, statement_ok, source_ids, confidence) ==
    [statement_ok |-> statement_ok, source_ids |-> source_ids,
     confidence |-> confidence]

\* ExtractedClaimSchema(**entry) of the strict validation
StrictClaim(entry) ==
    /\ entry.dict
    /\ ExtractRequired \subseteq entry.present
    /\ ExtractSchemaAccepts(entry.statement_ok, entry.source_ids, entry.confidence)

\* ExtractionResponseSchema(**raw_result): the claims, or the exception
ValidateExtraction(raw) ==
    IF raw.kind # "object" THEN [exception |-> "TypeError", list |-> <<>>]
    ELSE IF raw.claims.kind = "list"
            /\ \A k \in DOMAIN raw.claims.items : StrictClaim(raw.claims.items[k])
         THEN [exception |-> "none",
               list |-> [k \in DOMAIN raw.claims.items |->
                   ExtractedData(raw.claims.items[k],
                                 raw.claims.items[k].statement_ok,
                                 raw.claims.items[k].source_ids,
                                 raw.claims.items[k].confidence)]]
         ELSE [exception |-> "ValidationError", list |-> <<>>]

\* LenientClaim without the schema check
LenientClaim_Unchecked(entry) ==
    IF ~entry.dict THEN <<>>
    ELSE <<ExtractedData(entry, "statement" \in entry.present /\ entry.statement_ok,
                         Get(entry, "source_ids", <<>>),
                         Get(entry, "confidence", DefaultConfidence))>>

\* one entry of _parse_raw_claims: defaults (statement "", source_ids [],
\* confidence 50), then the schema; a failing entry is skipped
LenientClaim(entry) ==
    IF ~entry.dict THEN <<>>
    ELSE LET statement_ok == "statement" \in entry.present /\ entry.statement_ok
             source_ids == Get(entry, "source_ids", <<>>)
             confidence == Get(entry, "confidence", DefaultConfidence)
         IN  IF ExtractSchemaAccepts(statement_ok, source_ids, confidence)
             THEN <<ExtractedData(entry, statement_ok, source_ids, confidence)>>
             ELSE <<>>

RECURSIVE LenientClaimsFrom(_, _)
LenientClaimsFrom(items, k) ==
    IF k > Len(items) THEN <<>>
    ELSE LenientClaim(items[k]) \o LenientClaimsFrom(items, k + 1)

\* _parse_raw_claims: raw_result.get("claims", []); a value that cannot
\* be iterated raises TypeError
parse_raw_claims(raw) ==
    CASE raw.claims.kind = "absent" -> [exception |-> "none", list |-> <<>>]
      [] raw.claims.kind = "null" -> [exception |-> "TypeError", list |-> <<>>]
      [] OTHER -> [exception |-> "none",
                   list |-> LenientClaimsFrom(raw.claims.items, 1)]

\* [sid for sid in claim_data.source_ids if sid in valid_source_ids]
ValidSourceIds(source_ids, sources) ==
    SelectSeq(source_ids, LAMBDA sid : sid \in Range(sources))

\* list(set(c.document_id for c in chunks[:3]))
InferredSourceIds(chunks) ==
    ListOfSet({chunks[k] : k \in 1..Min(InferChunks, Len(chunks))})

\* the source_ids of a new claim: the valid ones, or with none of them
\* the inferred ones
ClaimSourceIds(source_ids, chunks, sources) ==
    IF ValidSourceIds(source_ids, sources) = <<>> /\ chunks # <<>>
    THEN InferredSourceIds(chunks)
    ELSE ValidSourceIds(source_ids, sources)

\* the loop that converts the claims_data to Claim objects
ConvertClaims(list, chunks, sources) ==
    [k \in DOMAIN list |->
        NewClaim(k, list[k].confidence,
                 ClaimSourceIds(list[k].source_ids, chunks, sources))]

\* the body of the try of extract_claims: the exception it ends with
\* ("none": it returned) and the claims
TryExtract(chunks, sources, outcome, embed) ==
    CASE outcome.kind = "error" -> [exception |-> "APIError", claims |-> <<>>]
      [] outcome.kind = "text" -> [exception |-> "JSONDecodeError", claims |-> <<>>]
      [] OTHER ->
          LET strict == ValidateExtraction(outcome)
              parsed == IF strict.exception = "ValidationError"
                        THEN parse_raw_claims(outcome)
                        ELSE strict
              converted == ConvertClaims(parsed.list, chunks, sources)
              out == deduplicate_claims(converted, embed.similar)
          IN  IF parsed.exception # "none"
              THEN [exception |-> parsed.exception, claims |-> <<>>]
              ELSE IF Len(converted) > 1 /\ ~embed.ok
                   THEN [exception |-> "EmbeddingError", claims |-> <<>>]
                   ELSE [exception |-> "none",
                         claims |-> KeptFrom(out.claims, out.keep, 1)]

\* extract_claims; `except Exception` returns []
extract_claims(chunks, sources, outcome, embed) ==
    IF chunks = <<>> THEN [raised |-> "none", claims |-> <<>>]
    ELSE LET attempt == TryExtract(chunks, sources, outcome, embed)
         IN  IF attempt.exception = "none"
             THEN [raised |-> "none", claims |-> attempt.claims]
             ELSE [raised |-> "none", claims |-> <<>>]

(***************************************************************************)
(* Extraction: the calls                                                   *)
(***************************************************************************)
ClaimEntry(present, statement_ok, source_ids, confidence) ==
    [dict |-> TRUE, present |-> present, statement_ok |-> statement_ok,
     source_ids |-> source_ids, confidence |-> confidence]

\* an entry of the response that is not a JSON object
JunkClaim ==
    [dict |-> FALSE, present |-> {}, statement_ok |-> FALSE,
     source_ids |-> <<>>, confidence |-> 0]

\* entries of an extraction response: valid ones; one with confidence 150;
\* one without source ids; one without confidence; one whose statement is
\* too short; one that is no object
ClaimEntries ==
    { ClaimEntry(ExtractRequired, TRUE, ids, confidence) :
        ids \in {<<"s1">>, <<"s2">>, <<"s1", "s2">>, <<"s3">>},
        confidence \in Confidences }
    \cup { ClaimEntry(ExtractRequired, TRUE, <<"s1">>, 150),
           ClaimEntry(ExtractRequired, TRUE, <<>>, 70),
           ClaimEntry({"statement", "source_ids"}, TRUE, <<"s1">>, 0),
           ClaimEntry(ExtractRequired, FALSE, <<"s1">>, 70),
           JunkClaim }

NoClaimList == [kind |-> "absent", items |-> <<>>]

\* what the LLM call can do: raise, return text that is no JSON, a JSON
\* array, or an object with or without a list of claims
ExtractOutcomes ==
    { [kind |-> kind, claims |-> NoClaimList] :
        kind \in {"error", "text", "array", "object"} }
    \cup { [kind |-> "object", claims |-> [kind |-> "null", items |-> <<>>]] }

\* the chunks of a call, by document: none, of one document, of two, and
\* four chunks of which the fourth alone is of another document
ChunkLists ==
    { <<>>, <<"s1">>, <<"s3">>, <<"s2", "s1">>, <<"s1", "s1", "s1", "s3">> }

SourceLists == { <<>>, <<"s1">>, <<"s1", "s2">> }

\* the gateway raises, or embeds the statements: the pairs of claims whose
\* similarity reaches the threshold
Embeddings(n) ==
    { [ok |-> FALSE, similar |-> {}] }
    \cup { [ok |-> TRUE, similar |-> sim] : sim \in SUBSET IdPairs(n) }

NoEmbedding == [ok |-> TRUE, similar |-> {}]

\* no extraction in progress
ExtractIdle ==
    /\ xpc = "idle"
    /\ chunk_docs = <<>>
    /\ known_sources = <<>>
    /\ extract_llm = [kind |-> "none", claims |-> NoClaimList]
    /\ embedding = NoEmbedding
    /\ extracted = <<>>
    /\ extract_out = "none"

\* claims = await extractor.extract_claims(query, chunks, sources)
Extract ==
    /\ xpc = "call"
    /\ LET out == extract_claims(chunk_docs, known_sources, extract_llm, embedding)
       IN  /\ extracted' = out.claims
           /\ extract_out' = IF out.raised = "none" THEN "returned" ELSE out.raised
    /\ xpc' = "done"
    /\ UNCHANGED <<chunk_docs, known_sources, extract_llm, embedding>>
    /\ UNCHANGED NotExtract

(***************************************************************************)
(* The session store and the routes over it                                *)
(* (vector_store.py, routes/claims.py, routes/synthesis.py)                *)
(***************************************************************************)
\* the number of times a source id occurs in the source_ids of the claims
RECURSIVE Occurrences(_, _)
Occurrences(ids, sid) ==
    IF ids = <<>> THEN 0
    ELSE (IF Head(ids) = sid THEN 1 ELSE 0) + Occurrences(Tail(ids), sid)

\* _count_claims_per_source, and the same loop of save_session_claims:
\* counts[source_id] += 1 for every source_id of every claim
RECURSIVE count_claims_per_source(_, _)
count_claims_per_source(cl, sid) ==
    IF cl = <<>> THEN 0
    ELSE Occurrences(Head(cl).source_ids, sid)
         + count_claims_per_source(Tail(cl), sid)

\* for source in sources: if source.id in source_claim_counts:
\*     source.claims_extracted = source_claim_counts[source.id]
UpdateCounts(sources, cl) ==
    [k \in DOMAIN sources |->
        IF count_claims_per_source(cl, sources[k].id) > 0
        THEN [sources[k] EXCEPT
                 !.claims_extracted = count_claims_per_source(cl, sources[k].id)]
        ELSE sources[k]]

\* get_chunks_by_ids / get_session_chunks: chunk_ids is a set of positions,
\* empty for "all chunks"
SelectedChunks(chunks, chunk_ids) ==
    IF chunk_ids = {} THEN chunks
    ELSE KeptFrom(chunks, chunk_ids, 1)

\* get_claims_by_ids / get_session_claims: claim_ids empty for "all claims"
SelectedClaims(cl, claim_ids) ==
    IF claim_ids = {} THEN cl
    ELSE SelectSeq(cl, LAMBDA c : c.id \in claim_ids)

SourceIdsOf(sources) == [k \in DOMAIN sources |-> sources[k].id]

Reply(route, status, cl, b) ==
    [route |-> route, status |-> status, claims |-> cl, brief |-> b]

NoReply == Reply("none", 0, <<>>, NoBrief)

\* cluster_claims as the route uses it: embed_texts raises or not
ClusterRaises(cl, cluster_ok) == Len(cl) > ClusterThreshold /\ ~cluster_ok

\* the route saving the (empty) result of an extraction without claims
extract_claims_route_SaveEmpty(chunks, sources, req) ==
    LET selected_chunks == SelectedChunks(chunks, req.chunk_ids)
        found == extract_claims(selected_chunks, SourceIdsOf(sources),
                                req.extract_llm, req.embedding).claims
        classified == classify_claims(found, req.classify_llm).claims
    IN  IF selected_chunks = <<>> \/ found = <<>>
        THEN [saved |-> TRUE, claims |-> <<>>, sources |-> sources,
              reply |-> Reply("extract", 200, <<>>, NoBrief)]
        ELSE IF ClusterRaises(classified, req.cluster_ok)
             THEN [saved |-> FALSE, claims |-> <<>>, sources |-> sources,
                   reply |-> Reply("extract", 500, <<>>, NoBrief)]
             ELSE [saved |-> TRUE, claims |-> classified,
                   sources |-> UpdateCounts(UpdateCounts(sources, classified),
                                            classified),
                   reply |-> Reply("extract", 200, classified, NoBrief)]

\* POST /extract-claims on the session: what is stored afterwards and the
\* response.  req holds chunk_ids and what the LLM and the gateway do.
extract_claims_route(chunks, sources, req) ==
    LET selected_chunks == SelectedChunks(chunks, req.chunk_ids)
        found == extract_claims(selected_chunks, SourceIdsOf(sources),
                                req.extract_llm, req.embedding).claims
        classified == classify_claims(found, req.classify_llm).claims
    IN  IF selected_chunks = <<>> \/ found = <<>>
        THEN [saved |-> FALSE, claims |-> <<>>, sources |-> sources,
              reply |-> Reply("extract", 200, <<>>, NoBrief)]
        ELSE IF ClusterRaises(classified, req.cluster_ok)
             THEN [saved |-> FALSE, claims |-> <<>>, sources |-> sources,
                   reply |-> Reply("extract", 500, <<>>, NoBrief)]
             ELSE [saved |-> TRUE, claims |-> classified,
                   sources |-> UpdateCounts(UpdateCounts(sources, classified),
                                            classified),
                   reply |-> Reply("extract", 200, classified, NoBrief)]

\* POST /extract-claims/{session_id}/reclassify
reclassify_route(cl, sources, req) ==
    IF cl = <<>>
    THEN [saved |-> FALSE, claims |-> cl, sources |-> sources,
          reply |-> Reply("reclassify", 400, <<>>, NoBrief)]
    ELSE LET reclassified == classify_claims(cl, req.classify_llm).claims
         IN  [saved |-> TRUE, claims |-> reclassified,
              sources |-> UpdateCounts(sources, reclassified),
              reply |-> Reply("reclassify", 200, reclassified, NoBrief)]

\* POST /synthesize-report
synthesize_route(cl, sources, req) ==
    LET selected_claims == SelectedClaims(cl, req.claim_ids)
    IN  IF selected_claims = <<>>
        THEN [saved |-> FALSE, brief |-> NoBrief,
              reply |-> Reply("synthesize", 400, <<>>, NoBrief)]
        ELSE LET out == synthesize(selected_claims, Len(sources), req.synth_llm)
             IN  [saved |-> TRUE, brief |-> out.brief,
                  reply |-> Reply("synthesize", 200, <<>>, out.brief)]

(***************************************************************************)
(* The routes: the requests                                                *)
(***************************************************************************)
StoredSource(id, claims_extracted) ==
    [id |-> id, claims_extracted |-> claims_extracted]

\* Source(..., claims_extracted=0) of process-docs
NewSources(ids) == [k \in DOMAIN ids |-> StoredSource(ids[k], 0)]

\* one chunk of every document
ChunksOf(ids) == ids

\* extraction responses: no claim; one claim; two claims of different sources; a
\* claim naming a source twice; a valid claim and one with confidence 150;
\* more claims than the clustering threshold
ManyClaims(n) == [k \in 1..n |-> ClaimEntry(ExtractRequired, TRUE, <<"s1">>, 80)]

ClaimLists ==
    { <<>>,
      <<ClaimEntry(ExtractRequired, TRUE, <<"s1">>, 80)>>,
      <<ClaimEntry(ExtractRequired, TRUE, <<"s1">>, 60),
        ClaimEntry(ExtractRequired, TRUE, <<"s2">>, 80)>>,
      <<ClaimEntry(ExtractRequired, TRUE, <<"s1", "s1">>, 80)>>,
      <<ClaimEntry(ExtractRequired, TRUE, <<"s1", "s2">>, 80),
        ClaimEntry(ExtractRequired, TRUE, <<"s1">>, 150)>>,
      ManyClaims(ClusterThreshold + 1) }

RouteExtractions ==
    { [kind |-> "error", claims |-> NoClaimList] }
    \cup { [kind |-> "object", claims |-> [kind |-> "list", items |-> items]] :
             items \in ClaimLists }

NoClassifications == [kind |-> "absent", items |-> <<>>]

\* classification responses: a failure; an entry for the first claim with
\* confidence 150; a valid entry with contradicting sources
RouteClassifications ==
    { [kind |-> "error", classifications |-> NoClassifications] }
    \cup { [kind |-> "object",
            classifications |-> [kind |-> "list", items |-> <<entry>>]] :
             entry \in { Entry(1, RequiredFields, "consensus", 2, 0, 150),
                         Entry(1, RequiredFields, "uncertain", 1, 2, 40) } }

RouteEmbeddings ==
    { [ok |-> FALSE, similar |-> {}], [ok |-> TRUE, similar |-> {}],
      [ok |-> TRUE, similar |-> {{1, 2}}] }

RouteSyntheses ==
    { NoResponseBody("error"),
      Response(SynthFields, GoodItems(1), <<>>, 1, "high", 72) }

Request(route, chunk_ids, extract, embed, classify, cluster_ok, claim_ids, synth) ==
    [route |-> route, chunk_ids |-> chunk_ids, extract_llm |-> extract,
     embedding |-> embed, classify_llm |-> classify, cluster_ok |-> cluster_ok,
     claim_ids |-> claim_ids, synth_llm |-> synth]

\* the services a request does not reach are left at "none"
NotCalled == [kind |-> "none", claims |-> NoClaimList]

NoRequest ==
    Request("none", {}, NotCalled, NoEmbedding,
            NoOutcome, TRUE, {}, NoResponseBody("none"))

\* no session
PipelineIdle ==
    /\ session_chunks = <<>>
    /\ session_sources = <<>>
    /\ session_claims = <<>>
    /\ session_brief = NoBrief
    /\ session_query = 0
    /\ request = NoRequest
    /\ reply = NoReply
    /\ requests = 0

\* POST /extract-claims, the request named by its number carrying a query
\* of its own: the LLM is called when chunks are selected, the
\* embedding gateway when the extraction answered with more than one
\* claim, the classification when it answered with a claim, the clustering
\* gateway when more than ClusterThreshold claims came
ExtractClaimsRequest ==
    /\ requests < MaxRequests
    /\ \E chunk_ids \in {{}, {9}} :
       \E extract \in IF chunk_ids = {} THEN RouteExtractions ELSE {NotCalled} :
       \E embed \in IF extract.kind = "object" /\ Len(extract.claims.items) > 1 THEN RouteEmbeddings ELSE {NoEmbedding} :
       \E classify \in IF extract.kind = "object" /\ extract.claims.items # <<>> THEN RouteClassifications ELSE {NoOutcome} :
       \E cluster_ok \in IF extract.kind = "object" /\ Len(extract.claims.items) > ClusterThreshold THEN BOOLEAN ELSE {TRUE} :
         LET req == Request("extract", chunk_ids, extract, embed, classify,
                            cluster_ok, {}, NoResponseBody("none"))
             out == extract_claims_route(session_chunks, session_sources, req)
         IN  /\ request' = req
             /\ reply' = out.reply
             /\ session_claims' = IF out.saved THEN out.claims ELSE session_claims
             /\ session_sources' = out.sources
             /\ session_query' = IF out.saved THEN requests + 1 ELSE session_query
    /\ requests' = requests + 1
    /\ UNCHANGED <<session_chunks, session_brief>>
    /\ UNCHANGED NotPipeline

\* POST /extract-claims/{session_id}/reclassify
ReclassifyRequest ==
    /\ requests < MaxRequests
    /\ \E classify \in RouteClassifications :
         LET req == Request("reclassify", {}, NotCalled,
                            NoEmbedding, classify, TRUE, {}, NoResponseBody("none"))
             out == reclassify_route(session_claims, session_sources, req)
         IN  /\ request' = req
             /\ reply' = out.reply
             /\ session_claims' = out.claims
             /\ session_sources' = out.sources
    /\ requests' = requests + 1
    /\ UNCHANGED <<session_chunks, session_brief, session_query>>
    /\ UNCHANGED NotPipeline

\* POST /synthesize-report
SynthesizeRequest ==
    /\ requests < MaxRequests
    /\ \E claim_ids \in {{}, {1}, {99}}, synth \in RouteSyntheses :
         LET req == Request("synthesize", {}, NotCalled,
                            NoEmbedding, NoOutcome, TRUE, claim_ids, synth)
             out == synthesize_route(session_claims, session_sources, req)
         IN  /\ request' = req
             /\ reply' = out.reply
             /\ session_brief' = IF out.saved THEN out.brief ELSE session_brief
    /\ requests' = requests + 1
    /\ UNCHANGED <<session_chunks, session_sources, session_claims, session_query>>
    /\ UNCHANGED NotPipeline

(***************************************************************************)
(* Cosine similarity (embedding_service.py)                                *)
(***************************************************************************)
\* np.dot(vec1, vec2) of two vectors of one length
RECURSIVE dot_product(_, _)
dot_product(vec1, vec2) ==
    IF vec1 = <<>> THEN 0
    ELSE Head(vec1) * Head(vec2) + dot_product(Tail(vec1), Tail(vec2))

\* the square of np.linalg.norm(vec)
norm_squared(vec) == dot_product(vec, vec)

CosineResult(raised, zero, dot, norms) ==
    [raised |-> raised, zero |-> zero, dot |-> dot, norms |-> norms]

\* compute_similarity: np.dot raises ValueError for vectors of different
\* lengths, before the norms are looked at; 0.0 when a norm is 0; else the
\* quotient, held here as its dividend and the square of its divisor
compute_similarity(e1, e2) ==
    IF Len(e1) # Len(e2) THEN CosineResult("ValueError", FALSE, 0, 0)
    ELSE IF norm_squared(e1) = 0 \/ norm_squared(e2) = 0
         THEN CosineResult("none", TRUE, 0, 0)
         ELSE CosineResult("none", FALSE, dot_product(e1, e2),
                           norm_squared(e1) * norm_squared(e2))

Components == {-1, 0, 1}

Vectors == UNION { [1..n -> Components] : n \in 0..MaxDim }

NoCosine == CosineResult("none", FALSE, 0, 0)

\* no compute_similarity call in progress
SimilarityIdle ==
    /\ cpc = "idle"
    /\ embedding1 = <<>>
    /\ embedding2 = <<>>
    /\ cosine = NoCosine

\* similarity = self.embedding_service.compute_similarity(...)
ComputeSimilarity ==
    /\ cpc = "call"
    /\ cosine' = compute_similarity(embedding1, embedding2)
    /\ cpc' = "done"
    /\ UNCHANGED <<embedding1, embedding2>>
    /\ UNCHANGED NotSimilarity

(***************************************************************************)
(* ClaimExtractorService.cluster_claims                                    *)
(***************************************************************************)
\* compute_similarity(claim_embedding, cluster_embedding) for the claims at
\* positions i and j
SimilarityOf(sim, i, j) == sim[{i, j}]

\* the loop over clusters.items(): the cluster (0: None) and similarity
\* that are best so far, cluster k compared by its first claim
RECURSIVE BestCluster(_, _, _, _, _, _, _)
BestCluster(cs, i, sim, threshold, k, best_cluster, best_similarity) ==
    IF k > Len(cs) THEN best_cluster
    ELSE LET sim_k == SimilarityOf(sim, i, cs[k].members[1])
         IN  IF sim_k > best_similarity /\ sim_k >= threshold
             THEN BestCluster(cs, i, sim, threshold, k + 1, k, sim_k)
             ELSE BestCluster(cs, i, sim, threshold, k + 1, best_cluster,
                              best_similarity)

\* the loop over the claims: append to the best cluster, or create
\* cluster_{cluster_count}
RECURSIVE ClusterFrom(_, _, _, _, _, _)
ClusterFrom(cs, cluster_count, i, n, sim, threshold) ==
    IF i > n THEN cs
    ELSE LET best_cluster == BestCluster(cs, i, sim, threshold, 1, 0, 0)
         IN  IF best_cluster # 0
             THEN ClusterFrom([cs EXCEPT ![best_cluster].members = Append(@, i)],
                              cluster_count, i + 1, n, sim, threshold)
             ELSE ClusterFrom(Append(cs, [id |-> cluster_count, members |-> <<i>>]),
                              cluster_count + 1, i + 1, n, sim, threshold)

\* cluster_claims: no claim gives {}, one claim gives cluster_0 alone
cluster_claims(n, sim, threshold) ==
    IF n = 0 THEN <<>>
    ELSE IF n < 2 THEN <<[id |-> 0, members |-> <<1>>]>>
         ELSE ClusterFrom(<<>>, 0, 1, n, sim, threshold)

\* similarities below, at and above the default threshold, and 0
Similarities == {0, 50, DefaultThreshold, 90}

Thresholds == {0, DefaultThreshold}

\* no cluster_claims call in progress
ClusterIdle ==
    /\ gpc = "idle"
    /\ cluster_in = 0
    /\ similarity = <<>>
    /\ similarity_threshold = 0
    /\ clusters = <<>>

\* clusters = await extractor.cluster_claims(classified_claims)
Cluster ==
    /\ gpc = "call"
    /\ clusters' = cluster_claims(cluster_in, similarity, similarity_threshold)
    /\ gpc' = "done"
    /\ UNCHANGED <<cluster_in, similarity, similarity_threshold>>
    /\ UNCHANGED NotCluster

(***************************************************************************)
(* VectorStoreService: the session store of each route module              *)
(***************************************************************************)
\* the route modules, each with its own module-level _vector_store
StoreModules == {"documents", "retrieval", "claims", "synthesis"}

\* the session ids process-docs hands out, in the order it creates them
SessionIds == 1..MaxSessions

\* a session id that is not a key of _session_data
NoSessionEntry ==
    [present |-> FALSE, chunks |-> <<>>, sources |-> <<>>, claims |-> <<>>,
     brief |-> FALSE]

\* {"chunks": [], "sources": [], "claims": [], "processed_docs": [], ...}
NewSessionEntry == [NoSessionEntry EXCEPT !.present = TRUE]

\* sessions.json does not exist, or holds {}
NoSessions == [s \in SessionIds |-> NoSessionEntry]

\* _vector_store: Optional[VectorStoreService] = None
NotBuilt == [built |-> FALSE, session_data |-> NoSessions]

\* VectorStoreService(): _session_data = {} and then _load_sessions()
VectorStoreService(file) == [built |-> TRUE, session_data |-> file]

\* if _vector_store is None: _vector_store = VectorStoreService()
get_vector_store(module) ==
    IF vector_store[module].built THEN vector_store[module]
    ELSE VectorStoreService(sessions_file)

\* if session_id not in self._session_data: self._session_data[session_id] = {...}
EnsureSession(data, s) ==
    IF data[s].present THEN data ELSE [data EXCEPT ![s] = NewSessionEntry]

\* return session_id in self._session_data
session_exists(data, s) == data[s].present

\* self._session_data[session_id]["chunks"].extend(chunk_data)
index_chunks(data, s, chunks) ==
    [EnsureSession(data, s) EXCEPT ![s].chunks = @ \o chunks]

\* self._session_data[session_id]["sources"] = [...]
save_session_metadata(data, s, sources) ==
    [EnsureSession(data, s) EXCEPT ![s].sources = sources]

\* a save that adds the claims to the stored ones
save_session_claims_Extend(data, s, cl) ==
    [EnsureSession(data, s) EXCEPT ![s].claims = @ \o cl,
                                   ![s].sources = UpdateCounts(@, cl)]

\* self._session_data[session_id]["claims"] = [...], then the claim counts
\* of the stored sources
save_session_claims(data, s, cl) ==
    [EnsureSession(data, s) EXCEPT ![s].claims = cl,
                                   ![s].sources = UpdateCounts(@, cl)]

\* self._session_data[session_id]["brief"] = brief.model_dump()
save_research_brief(data, s) ==
    [EnsureSession(data, s) EXCEPT ![s].brief = TRUE]

\* the getters return [] for a session that is not in _session_data
get_session_chunks(data, s) == IF data[s].present THEN data[s].chunks ELSE <<>>

get_session_sources(data, s) == IF data[s].present THEN data[s].sources ELSE <<>>

get_session_claims(data, s) == IF data[s].present THEN data[s].claims ELSE <<>>

\* a module's instance after a request, built from now on
Instance(data) == [built |-> TRUE, session_data |-> data]

StoreReply(route, s, status, cl) ==
    [route |-> route, session |-> s, status |-> status, claims |-> cl]

NoStoreReply == StoreReply("none", 0, 0, <<>>)

\* the documents process-docs could process: none, or one
ProcessedDocs == {<<>>, <<"s1">>}

\* the classified claims of an extraction: none, one, two
StoreClaimLists ==
    { <<>>,
      <<NewClaim(1, 80, <<"s1">>)>>,
      <<NewClaim(1, 80, <<"s1">>), NewClaim(2, 60, <<"s1">>)>> }

\* an in-flight request that has not arrived
NoInflight ==
    [route |-> "none", pc |-> "done", claims |-> <<>>, sources |-> <<>>,
     status |-> 0]

\* no request has reached a store
StoreIdle ==
    /\ vector_store = [m \in StoreModules |-> NotBuilt]
    /\ sessions_file = NoSessions
    /\ created = 0
    /\ saved_by_extract = [s \in SessionIds |-> <<>>]
    /\ store_reply = NoStoreReply
    /\ store_requests = 0
    /\ inflight = <<>>
    /\ save_order = <<>>

\* POST /process-docs: session_id = str(uuid.uuid4()), index_chunks for every
\* processed document, then save_session_metadata
ProcessDocs ==
    /\ store_requests < MaxStoreRequests
    /\ created < MaxSessions
    /\ \E docs \in ProcessedDocs :
          LET s == created + 1
              store == get_vector_store("documents")
              indexed == IF docs # <<>>
                         THEN index_chunks(store.session_data, s, ChunksOf(docs))
                         ELSE store.session_data
              saved == save_session_metadata(indexed, s, NewSources(docs))
          IN  /\ vector_store' = [vector_store EXCEPT !["documents"] = Instance(saved)]
              /\ sessions_file' = saved
              /\ created' = s
              /\ store_reply' = StoreReply("process-docs", s, 200, <<>>)
    /\ store_requests' = store_requests + 1
    /\ UNCHANGED <<saved_by_extract, inflight, save_order>>
    /\ UNCHANGED NotStore

\* POST /retrieve-chunks: the session check
RetrieveChunks ==
    /\ store_requests < MaxStoreRequests
    /\ \E s \in SessionIds :
          LET store == get_vector_store("retrieval")
          IN  /\ vector_store' = [vector_store EXCEPT !["retrieval"] = store]
              /\ store_reply' = StoreReply("retrieve-chunks", s,
                                    IF session_exists(store.session_data, s)
                                    THEN 200 ELSE 404, <<>>)
    /\ store_requests' = store_requests + 1
    /\ UNCHANGED <<sessions_file, created, saved_by_extract, inflight, save_order>>
    /\ UNCHANGED NotStore

\* POST /extract-claims: the session check, the two early returns, then
\* save_session_claims and save_session_metadata
ExtractClaims ==
    /\ store_requests < MaxStoreRequests
    /\ \E s \in SessionIds : \E cl \in StoreClaimLists :
          LET store == get_vector_store("claims")
              data == store.session_data
              sources == get_session_sources(data, s)
              saved == save_session_metadata(save_session_claims(data, s, cl),
                                             s, UpdateCounts(sources, cl))
          IN  IF ~session_exists(data, s)
              THEN /\ vector_store' = [vector_store EXCEPT !["claims"] = store]
                   /\ store_reply' = StoreReply("extract-claims", s, 404, <<>>)
                   /\ UNCHANGED <<sessions_file, saved_by_extract>>
              ELSE IF get_session_chunks(data, s) = <<>> \/ cl = <<>>
              THEN /\ vector_store' = [vector_store EXCEPT !["claims"] = store]
                   /\ store_reply' = StoreReply("extract-claims", s, 200, <<>>)
                   /\ UNCHANGED <<sessions_file, saved_by_extract>>
              ELSE /\ vector_store' = [vector_store EXCEPT !["claims"] = Instance(saved)]
                   /\ sessions_file' = saved
                   /\ saved_by_extract' = [saved_by_extract EXCEPT ![s] = cl]
                   /\ store_reply' = StoreReply("extract-claims", s, 200, cl)
    /\ store_requests' = store_requests + 1
    /\ UNCHANGED <<created, inflight, save_order>>
    /\ UNCHANGED NotStore

\* POST /synthesize-report: the session check, get_session_claims, then
\* save_research_brief
SynthesizeReport ==
    /\ store_requests < MaxStoreRequests
    /\ \E s \in SessionIds :
          LET store == get_vector_store("synthesis")
              data == store.session_data
              cl == get_session_claims(data, s)
              saved == save_research_brief(data, s)
          IN  IF ~session_exists(data, s)
              THEN /\ vector_store' = [vector_store EXCEPT !["synthesis"] = store]
                   /\ store_reply' = StoreReply("synthesize-report", s, 404, <<>>)
                   /\ UNCHANGED sessions_file
              ELSE IF cl = <<>>
              THEN /\ vector_store' = [vector_store EXCEPT !["synthesis"] = store]
                   /\ store_reply' = StoreReply("synthesize-report", s, 400, <<>>)
                   /\ UNCHANGED sessions_file
              ELSE /\ vector_store' = [vector_store EXCEPT !["synthesis"] = Instance(saved)]
                   /\ sessions_file' = saved
                   /\ store_reply' = StoreReply("synthesize-report", s, 200, cl)
    /\ store_requests' = store_requests + 1
    /\ UNCHANGED <<created, saved_by_extract, inflight, save_order>>
    /\ UNCHANGED NotStore

(***************************************************************************)
(* Two requests to the claims routes in flight for one session             *)
(***************************************************************************)
\* the session both requests name
OverlapSession == 1

InflightIds == 1..MaxInflight

\* the claims of request r's extraction; uuid4 ids are fresh in every request
ExtractedBy(r) ==
    { <<>>,
      <<NewClaim(10 * r + 1, 80, <<"s1">>)>>,
      <<NewClaim(10 * r + 1, 80, <<"s1">>), NewClaim(10 * r + 2, 60, <<"s1", "s2">>)>> }

\* classification responses for the claims cl: an API error, or one entry
\* for the first claim
OverlapClassifications(cl) ==
    { [kind |-> "error", classifications |-> NoClassifications] }
    \cup { [kind |-> "object",
            classifications |->
                [kind |-> "list",
                 items |-> <<Entry(cl[1].id, RequiredFields, type, 1, 1, 50)>>]] :
             type \in {"consensus", "disagreement"} }

\* claims the session holds when the requests arrive
StoredBefore ==
    { <<>>,
      <<StoredClaim(1, "uncertain", 70, 1, 0, <<"s1">>),
        StoredClaim(2, "consensus", 90, 2, 0, <<"s1", "s2">>)>> }

Inflight(route, pc, cl, sources, status) ==
    [route |-> route, pc |-> pc, claims |-> cl, sources |-> sources,
     status |-> status]

\* the claims instance's _session_data
ClaimsData == vector_store["claims"].session_data

\* _session_data of the claims instance becomes data, and _save_sessions()
\* writes it to sessions.json
StoreWrites(data) ==
    /\ vector_store' = [vector_store EXCEPT !["claims"] = Instance(data)]
    /\ sessions_file' = data

\* a request runs to its first LLM call: the session check and the reads
\* of the stored chunks, claims and sources
Begin(r) ==
    /\ inflight[r].pc = "start"
    /\ LET route == inflight[r].route
           sources == get_session_sources(ClaimsData, OverlapSession)
           stored == get_session_claims(ClaimsData, OverlapSession)
       IN  inflight' = [inflight EXCEPT ![r] =
               IF ~session_exists(ClaimsData, OverlapSession)
               THEN Inflight(route, "done", <<>>, <<>>, 404)
               ELSE IF route = "extract"
               THEN IF get_session_chunks(ClaimsData, OverlapSession) = <<>>
                    THEN Inflight(route, "done", <<>>, <<>>, 200)
                    ELSE Inflight(route, "extracting", <<>>, sources, 0)
               ELSE IF stored = <<>>
                    THEN Inflight(route, "done", <<>>, <<>>, 400)
                    ELSE Inflight(route, "classifying", stored, sources, 0)]
    /\ UNCHANGED <<vector_store, sessions_file, created, saved_by_extract, store_reply, store_requests, save_order>>
    /\ UNCHANGED NotStore

\* claims = await extractor.extract_claims(chunks, sources, request.query);
\* if not claims: return
ClaimsExtracted(r) ==
    /\ inflight[r].pc = "extracting"
    /\ \E cl \in ExtractedBy(r) :
          inflight' = [inflight EXCEPT ![r] =
              IF cl = <<>>
              THEN Inflight(@.route, "done", <<>>, @.sources, 200)
              ELSE Inflight(@.route, "classifying", cl, @.sources, 0)]
    /\ UNCHANGED <<vector_store, sessions_file, created, saved_by_extract, store_reply, store_requests, save_order>>
    /\ UNCHANGED NotStore

\* classified_claims = await extractor.classify_claims(claims, sources)
ClaimsClassified(r) ==
    /\ inflight[r].pc = "classifying"
    /\ \E outcome \in OverlapClassifications(inflight[r].claims) :
          inflight' = [inflight EXCEPT ![r] =
              Inflight(@.route, "saving",
                       classify_claims(@.claims, outcome).claims, @.sources, 0)]
    /\ UNCHANGED <<vector_store, sessions_file, created, saved_by_extract, store_reply, store_requests, save_order>>
    /\ UNCHANGED NotStore

\* await vector_store.save_session_claims(session_id, classified_claims);
\* reclassify returns after it
SaveClaims(r) ==
    /\ inflight[r].pc = "saving"
    /\ StoreWrites(save_session_claims(ClaimsData, OverlapSession, inflight[r].claims))
    /\ save_order' = Append(save_order, r)
    /\ inflight' = [inflight EXCEPT ![r] =
           IF @.route = "extract"
           THEN [@ EXCEPT !.pc = "metadata"]
           ELSE [@ EXCEPT !.pc = "done", !.status = 200]]
    /\ UNCHANGED <<created, saved_by_extract, store_reply, store_requests>>
    /\ UNCHANGED NotStore

\* the claim counts of the request's own sources, then
\* await vector_store.save_session_metadata(session_id, query, sources)
SaveMetadata(r) ==
    /\ inflight[r].pc = "metadata"
    /\ StoreWrites(save_session_metadata(ClaimsData, OverlapSession,
                       UpdateCounts(inflight[r].sources, inflight[r].claims)))
    /\ inflight' = [inflight EXCEPT ![r] = [@ EXCEPT !.pc = "done", !.status = 200]]
    /\ UNCHANGED <<created, saved_by_extract, store_reply, store_requests, save_order>>
    /\ UNCHANGED NotStore

(***************************************************************************)
(* Specifications                                                          *)
(***************************************************************************)
\* the handler model: one retrieve-chunks request
Init ==
    /\ rpc = "request"
    /\ session_id \in Sessions \cup {"unknown"}
    /\ query \in SlimQueries
    /\ top_k \in 1..Min(MaxTopK, TopKLimit)
    /\ max_per_source = DefaultMaxPerSource
    /\ results = <<>>
    /\ selected = <<>>
    /\ response = NoResponse
    /\ DedupIdle
    /\ ClassifyIdle
    /\ SynthesisIdle
    /\ ExpandIdle
    /\ ExtractIdle
    /\ PipelineIdle
    /\ SimilarityIdle
    /\ ClusterIdle
    /\ StoreIdle

Next ==
    \/ RetrieveNotFound
    \/ Search
    \/ Rerank
    \/ Primary
    \/ Backfill
    \/ Respond

Spec == Init /\ [][Next]_vars

\* the function model: rerank-and-diversify called on a sorted hit list
InitDiversity ==
    /\ rpc = "searched"
    /\ session_id = "call"
    /\ query \in SlimQueries
    /\ top_k \in 1..MaxCallTopK
    /\ max_per_source \in 1..MaxCallPerSource
    /\ \E n \in 0..MaxCallHits :
         \E docs \in [1..n -> Docs], contents \in [1..n -> SlimContents] :
            results = SlimHits(docs, contents)
    /\ selected = <<>>
    /\ response = NoResponse
    /\ DedupIdle
    /\ ClassifyIdle
    /\ SynthesisIdle
    /\ ExpandIdle
    /\ ExtractIdle
    /\ PipelineIdle
    /\ SimilarityIdle
    /\ ClusterIdle
    /\ StoreIdle

NextDiversity ==
    \/ Rerank
    \/ Primary
    \/ Backfill

SpecDiversity == InitDiversity /\ [][NextDiversity]_vars

\* the scoring model: _rerank_results called on hits of every kind
InitScore ==
    /\ rpc = "searched"
    /\ session_id = "call"
    /\ query \in Queries
    /\ top_k = 1
    /\ max_per_source = DefaultMaxPerSource
    /\ \E n \in 1..MaxScoreHits :
         \E ds \in [1..n -> Distances], contents \in [1..n -> RichContents],
            titles \in [1..n -> SectionTitles] :
            /\ Ascending(ds)
            /\ results = RichHits(ds, contents, titles)
    /\ selected = <<>>
    /\ response = NoResponse
    /\ DedupIdle
    /\ ClassifyIdle
    /\ SynthesisIdle
    /\ ExpandIdle
    /\ ExtractIdle
    /\ PipelineIdle
    /\ SimilarityIdle
    /\ ClusterIdle
    /\ StoreIdle

NextScore == Rerank

SpecScore == InitScore /\ [][NextScore]_vars

\* the claims extract_claims built from one LLM response, and the
\* similarity of their statements
InitDedup ==
    /\ RetrievalIdle
    /\ dpc = "call"
    /\ dedup_pass = 1
    /\ \E n \in 0..MaxClaims :
         /\ \E conf \in [1..n -> Confidences], srcs \in [1..n -> SourceIdLists] :
               claims = [i \in 1..n |-> NewClaim(i, conf[i], srcs[i])]
         /\ similar \in SUBSET IdPairs(n)
    /\ dedup_in = claims
    /\ deduped = <<>>
    /\ comparisons = <<>>
    /\ ClassifyIdle
    /\ SynthesisIdle
    /\ ExpandIdle
    /\ ExtractIdle
    /\ PipelineIdle
    /\ SimilarityIdle
    /\ ClusterIdle
    /\ StoreIdle

NextDedup ==
    \/ Deduplicate
    \/ DeduplicateAgain

SpecDedup == InitDedup /\ [][NextDedup]_vars

\* classify_claims on a batch of claims, for every LLM outcome
InitClassify ==
    /\ RetrievalIdle
    /\ DedupIdle
    /\ kpc = "call"
    /\ \E n \in 0..MaxBatch :
         /\ \E profiles \in [1..n -> UNION {ClaimProfiles(id) : id \in 1..n}] :
               /\ \A k \in 1..n : profiles[k] \in ClaimProfiles(k)
               /\ batch = profiles
         /\ \/ llm \in LLMOutcomes(n)
            \/ \E m \in 0..MaxEntries :
                 \E items \in [1..m -> Entries(n)] :
                    llm = [kind |-> "object",
                           classifications |-> [kind |-> "list", items |-> items]]
    /\ classify_in = batch
    /\ classify_out = "none"
    /\ SynthesisIdle
    /\ ExpandIdle
    /\ ExtractIdle
    /\ PipelineIdle
    /\ SimilarityIdle
    /\ ClusterIdle
    /\ StoreIdle

NextClassify == Classify

SpecClassify == InitClassify /\ [][NextClassify]_vars

\* classify_claims when the LLM call fails: the rule decides every type
InitFallback ==
    /\ RetrievalIdle
    /\ DedupIdle
    /\ kpc = "call"
    /\ \E n \in 1..MaxFallbackBatch :
         /\ \E profiles \in [1..n -> UNION {FallbackProfiles(id) : id \in 1..n}] :
               /\ \A k \in 1..n : profiles[k] \in FallbackProfiles(k)
               /\ batch = profiles
         /\ llm \in FailingOutcomes(n)
    /\ classify_in = batch
    /\ classify_out = "none"
    /\ SynthesisIdle
    /\ ExpandIdle
    /\ ExtractIdle
    /\ PipelineIdle
    /\ SimilarityIdle
    /\ ClusterIdle
    /\ StoreIdle

NextFallback == Classify

SpecFallback == InitFallback /\ [][NextFallback]_vars

\* synthesize on a list of classified claims, for every LLM outcome
InitSynthesis ==
    /\ RetrievalIdle
    /\ DedupIdle
    /\ ClassifyIdle
    /\ spc = "call"
    /\ \E n \in 0..MaxSynthClaims :
         \E profiles \in [1..n -> UNION {SynthProfiles(id) : id \in 1..n}] :
            /\ \A k \in 1..n : profiles[k] \in SynthProfiles(k)
            /\ synth_claims = profiles
    /\ synth_sources \in SourceCounts
    /\ synth_llm \in SynthOutcomes
    /\ llm_calls = 0
    /\ brief = NoBrief
    /\ synth_out = "none"
    /\ ExpandIdle
    /\ ExtractIdle
    /\ PipelineIdle
    /\ SimilarityIdle
    /\ ClusterIdle
    /\ StoreIdle

NextSynthesis == Synthesize

SpecSynthesis == InitSynthesis /\ [][NextSynthesis]_vars

\* _expand_query on every query of up to MaxQueryLen characters
InitExpand ==
    /\ epc = "call"
    /\ \E n \in 0..MaxQueryLen : expand_in \in [1..n -> QueryChars]
    /\ queries = NoQueries
    /\ RetrievalIdle
    /\ DedupIdle
    /\ ClassifyIdle
    /\ SynthesisIdle
    /\ ExtractIdle
    /\ PipelineIdle
    /\ SimilarityIdle
    /\ ClusterIdle
    /\ StoreIdle

NextExpand == Expand

SpecExpand == InitExpand /\ [][NextExpand]_vars

\* synthesize when the LLM call fails, on lists of up to MaxFallbackClaims
\* claims of every mix of types
InitSynthFallback ==
    /\ RetrievalIdle
    /\ DedupIdle
    /\ ClassifyIdle
    /\ ExpandIdle
    /\ spc = "call"
    /\ \E n \in 1..MaxFallbackClaims :
         \E profiles \in [1..n -> UNION {TypeProfiles(id) : id \in 1..n}] :
            /\ \A k \in 1..n : profiles[k] \in TypeProfiles(k)
            /\ synth_claims = profiles
    /\ synth_sources \in SourceCounts
    /\ synth_llm \in FailedCalls
    /\ llm_calls = 0
    /\ brief = NoBrief
    /\ synth_out = "none"
    /\ ExtractIdle
    /\ PipelineIdle
    /\ SimilarityIdle
    /\ ClusterIdle
    /\ StoreIdle

NextSynthFallback == Synthesize

SpecSynthFallback == InitSynthFallback /\ [][NextSynthFallback]_vars

\* extract_claims on every list of chunks and sources, for every LLM
\* outcome and every outcome of the embedding gateway
InitExtract ==
    /\ xpc = "call"
    /\ chunk_docs \in ChunkLists
    /\ known_sources \in SourceLists
    /\ \/ extract_llm \in ExtractOutcomes
       \/ \E m \in 0..MaxExtracted :
            \E items \in [1..m -> ClaimEntries] :
               extract_llm = [kind |-> "object",
                              claims |-> [kind |-> "list", items |-> items]]
    /\ embedding \in Embeddings(MaxExtracted)
    /\ extracted = <<>>
    /\ extract_out = "none"
    /\ RetrievalIdle
    /\ DedupIdle
    /\ ClassifyIdle
    /\ SynthesisIdle
    /\ ExpandIdle
    /\ PipelineIdle
    /\ SimilarityIdle
    /\ ClusterIdle
    /\ StoreIdle

NextExtract == Extract

SpecExtract == InitExtract /\ [][NextExtract]_vars

\* a session as process-docs leaves it (one chunk per document, every
\* source with claims_extracted 0, no claims), then requests to the routes
InitPipeline ==
    /\ \E ids \in {<<"s1">>, <<"s1", "s2">>} :
         /\ session_chunks = ChunksOf(ids)
         /\ session_sources = NewSources(ids)
    /\ session_claims = <<>>
    /\ session_brief = NoBrief
    /\ session_query = 0
    /\ request = NoRequest
    /\ reply = NoReply
    /\ requests = 0
    /\ RetrievalIdle
    /\ DedupIdle
    /\ ClassifyIdle
    /\ SynthesisIdle
    /\ ExpandIdle
    /\ ExtractIdle
    /\ SimilarityIdle
    /\ ClusterIdle
    /\ StoreIdle

NextPipeline ==
    \/ ExtractClaimsRequest
    \/ ReclassifyRequest
    \/ SynthesizeRequest

SpecPipeline == InitPipeline /\ [][NextPipeline]_vars

\* compute_similarity on every pair of vectors of up to MaxDim components
InitSimilarity ==
    /\ cpc = "call"
    /\ embedding1 \in Vectors
    /\ embedding2 \in Vectors
    /\ cosine = NoCosine
    /\ RetrievalIdle
    /\ DedupIdle
    /\ ClassifyIdle
    /\ SynthesisIdle
    /\ ExpandIdle
    /\ ExtractIdle
    /\ PipelineIdle
    /\ ClusterIdle
    /\ StoreIdle

NextSimilarity == ComputeSimilarity

SpecSimilarity == InitSimilarity /\ [][NextSimilarity]_vars

\* _fallback_synthesis on more claims than its caps: every list of up to
\* MaxItemClaims claims of the three types and two confidences, three
\* sources, the LLM call failing
InitFallbackItems ==
    /\ spc = "call"
    /\ \E n \in 1..MaxItemClaims :
         \E profiles \in [1..n -> SynthProfiles(0)] :
            synth_claims = [k \in 1..n |-> [profiles[k] EXCEPT !.id = k]]
    /\ synth_sources = FewSources
    /\ synth_llm = NoResponseBody("error")
    /\ llm_calls = 0
    /\ brief = NoBrief
    /\ synth_out = "none"
    /\ RetrievalIdle
    /\ DedupIdle
    /\ ClassifyIdle
    /\ ExpandIdle
    /\ ExtractIdle
    /\ PipelineIdle
    /\ SimilarityIdle
    /\ ClusterIdle
    /\ StoreIdle

NextFallbackItems == Synthesize

SpecFallbackItems == InitFallbackItems /\ [][NextFallbackItems]_vars

\* cluster_claims on up to MaxClusterClaims claims, for every similarity
\* of their embeddings and both thresholds
InitCluster ==
    /\ gpc = "call"
    /\ cluster_in \in 0..MaxClusterClaims
    /\ similarity \in [IdPairs(cluster_in) -> Similarities]
    /\ similarity_threshold \in Thresholds
    /\ clusters = <<>>
    /\ RetrievalIdle
    /\ DedupIdle
    /\ ClassifyIdle
    /\ SynthesisIdle
    /\ ExpandIdle
    /\ ExtractIdle
    /\ PipelineIdle
    /\ SimilarityIdle
    /\ StoreIdle

NextCluster == Cluster

SpecCluster == InitCluster /\ [][NextCluster]_vars

\* the store model: requests to the four routes, one after the other, in a
\* process that starts without sessions.json
InitStore ==
    /\ vector_store = [m \in StoreModules |-> NotBuilt]
    /\ sessions_file = NoSessions
    /\ created = 0
    /\ saved_by_extract = [s \in SessionIds |-> <<>>]
    /\ store_reply = NoStoreReply
    /\ store_requests = 0
    /\ inflight = <<>>
    /\ save_order = <<>>
    /\ RetrievalIdle
    /\ DedupIdle
    /\ ClassifyIdle
    /\ SynthesisIdle
    /\ ExpandIdle
    /\ ExtractIdle
    /\ PipelineIdle
    /\ SimilarityIdle
    /\ ClusterIdle

NextStore ==
    \/ ProcessDocs
    \/ RetrieveChunks
    \/ ExtractClaims
    \/ SynthesizeReport

SpecStore == InitStore /\ [][NextStore]_vars

\* the overlap model: extract-claims and reclassify requests for one session
\* of the claims instance, interleaved at their awaited calls
InitOverlap ==
    /\ \E stored \in StoredBefore :
          LET data == [NoSessions EXCEPT ![OverlapSession] =
                          [present |-> TRUE, chunks |-> ChunksOf(<<"s1", "s2">>),
                           sources |-> UpdateCounts(NewSources(<<"s1", "s2">>), stored),
                           claims |-> stored, brief |-> FALSE]]
          IN  /\ vector_store = [m \in StoreModules |->
                                    IF m = "claims" THEN Instance(data) ELSE NotBuilt]
              /\ sessions_file = data
    /\ created = OverlapSession
    /\ saved_by_extract = [s \in SessionIds |-> <<>>]
    /\ store_reply = NoStoreReply
    /\ store_requests = 0
    /\ inflight \in [InflightIds -> {Inflight(route, "start", <<>>, <<>>, 0) :
                                        route \in {"extract", "reclassify"}}]
    /\ save_order = <<>>
    /\ RetrievalIdle
    /\ DedupIdle
    /\ ClassifyIdle
    /\ SynthesisIdle
    /\ ExpandIdle
    /\ ExtractIdle
    /\ PipelineIdle
    /\ SimilarityIdle
    /\ ClusterIdle

NextOverlap ==
    \E r \in InflightIds :
        \/ Begin(r)
        \/ ClaimsExtracted(r)
        \/ ClaimsClassified(r)
        \/ SaveClaims(r)
        \/ SaveMetadata(r)

SpecOverlap == InitOverlap /\ [][NextOverlap]_vars

(***************************************************************************)
(* Retrieval: properties                                                   *)
(***************************************************************************)
NonIncreasing(hits) ==
    \A i \in 1..Len(hits), j \in 1..Len(hits) :
        i < j => hits[i].relevance_score >= hits[j].relevance_score

DistinctIds(hits) ==
    \A i \in 1..Len(hits), j \in 1..Len(hits) : i # j => hits[i].id # hits[j].id

\* C1: the list _ensure_source_diversity returns for the re-ranked hits,
\* backfilled hits included, is in non-increasing order of relevance_score.
C1_OutputSorted == rpc = "diversified" => NonIncreasing(selected)

\* C2: every relevance_score written by _rerank_results lies in [0, 100]
\* when the incoming similarity does.
C2_ScoreInRange ==
    rpc = "reranked" =>
        \A i \in 1..Len(results) :
            /\ results[i].relevance_score >= 0
            /\ results[i].relevance_score <= ScoreCap

\* a re-ranked hit with the length, keyword and section boosts all applied
\* sits at the cap, and another hit was scored down to 0
C2_Witness ==
    /\ rpc = "reranked"
    /\ \E i \in 1..Len(results) :
         /\ results[i].relevance_score = ScoreCap
         /\ LengthBoost(ContentLength(results[i].content)) = MidLengthBoost
         /\ KeywordMatches(QueryTerms(query), results[i].content) >= 2
         /\ SectionTitleBoost(QueryTerms(query), results[i].section_title) = SectionBoost
    /\ \E i \in 1..Len(results) : results[i].relevance_score = 0

\* C3: the selection of the first loop holds at most max_per_source hits of
\* any one document_id.
C3_PrimaryCap ==
    rpc = "primary" =>
        \A d \in Docs : SourceCount(selected, d) <= max_per_source

\* the cap refused a hit: its document is full and the selection is short
C3_Witness ==
    /\ rpc = "primary"
    /\ Len(selected) < top_k
    /\ \E i \in 1..Len(results) :
         /\ ~InSelection(results[i], selected)
         /\ SourceCount(selected, results[i].document_id) = max_per_source
         /\ \E j \in (i + 1)..Len(results) : InSelection(results[j], selected)

\* C4: a successful retrieve returns min(top_k, number of hits) chunks, each
\* a hit of the search, none twice.
C4_RetrieveLength ==
    (rpc = "done" /\ response.status = 200) =>
        /\ Len(response.chunks) = Min(top_k, Len(results))
        /\ response.total_results = Len(response.chunks)
        /\ DistinctIds(response.chunks)
        /\ \A i \in 1..Len(response.chunks) : InSelection(response.chunks[i], results)

\* fewer than top_k chunks came back, and the backfill put a document over
\* the per-source cap to return every hit
C4_Witness ==
    /\ rpc = "done"
    /\ response.status = 200
    /\ Len(response.chunks) < top_k
    /\ Len(response.chunks) = Len(results)
    /\ \E d \in Docs : SourceCount(response.chunks, d) > DefaultMaxPerSource

(***************************************************************************)
(* De-duplication: properties                                              *)
(***************************************************************************)
Ids(cl) == {cl[k].id : k \in DOMAIN cl}

AllSources(cl) == UNION {Range(cl[k].source_ids) : k \in DOMAIN cl}

\* C5: of two compared claims at or above the threshold, the one with the
\* strictly higher confidence is kept; the number of source_ids decides
\* only between equal confidences.
C5_HigherConfidenceKept ==
    dpc = "returned" =>
        \A k \in DOMAIN comparisons :
            LET e == comparisons[k]
            IN  (e.similar /\ claims[e.i].confidence # claims[e.j].confidence)
                    => claims[e.kept].confidence > claims[e.dropped].confidence

\* C6: the source_ids of every dropped claim are contained in those of a
\* surviving claim, and the union of source_ids is that of the input.
C6_SourcesPreserved ==
    dpc = "returned" =>
        /\ \A k \in DOMAIN dedup_in :
              dedup_in[k].id \notin Ids(deduped) =>
                  \E m \in DOMAIN deduped :
                      Range(dedup_in[k].source_ids) \subseteq Range(deduped[m].source_ids)
        /\ AllSources(deduped) = AllSources(dedup_in)

\* C7: no two surviving claims are similar, and _deduplicate_claims run on
\* its own output returns it unchanged.
C7_Idempotent ==
    dpc = "returned" =>
        /\ \A a \in DOMAIN deduped, b \in DOMAIN deduped :
              a # b => {deduped[a].id, deduped[b].id} \notin similar
        /\ dedup_pass = 2 => deduped = dedup_in

\* the second call returned two or more claims, after the first call had
\* dropped a claim similar to another
C7_Witness ==
    /\ dpc = "returned"
    /\ dedup_pass = 2
    /\ Len(deduped) >= 2
    /\ \E pair \in similar : \E a \in pair : a \notin Ids(deduped)

(***************************************************************************)
(* Classification: properties                                              *)
(***************************************************************************)
\* the rule as the specification states it
StatedRule(sources, confidence, contradicting) ==
    IF (sources >= 3 /\ confidence >= 70) \/ (sources >= 2 /\ confidence >= 60)
    THEN "consensus"
    ELSE IF contradicting > 0 THEN "disagreement" ELSE "uncertain"

StatedFallback(claim) ==
    [claim EXCEPT !.type = StatedRule(Len(claim.source_ids), claim.confidence,
                                      claim.contradicting_sources)]

\* C8: when the LLM is of no use, the type classify_claims gives a claim is
\* the stated function of its number of source_ids, its confidence and its
\* contradicting_sources: consensus if (sources >= 3 and confidence >= 70)
\* or (sources >= 2 and confidence >= 60), else disagreement if
\* contradicting_sources > 0, else uncertain; whatever type and supporting
\* count the claim had before.  3 sources with confidence 75 give consensus;
\* 1 source with confidence 75 and nothing contradicting gives uncertain.
C8_FallbackRule ==
    kpc = "done" =>
        \A k \in DOMAIN batch :
            /\ batch[k].type = StatedRule(Len(classify_in[k].source_ids),
                                          classify_in[k].confidence,
                                          classify_in[k].contradicting_sources)
            /\ (Len(classify_in[k].source_ids) = 3 /\ classify_in[k].confidence = 75)
                   => batch[k].type = "consensus"
            /\ (Len(classify_in[k].source_ids) = 1 /\ classify_in[k].confidence = 75
                    /\ classify_in[k].contradicting_sources = 0)
                   => batch[k].type = "uncertain"

\* a claim with 3 sources and confidence 75 that extraction typed uncertain
\* was classified by the rule
C8_Witness ==
    /\ kpc = "done"
    /\ llm.kind = "error"
    /\ \E k \in DOMAIN batch :
          /\ Len(classify_in[k].source_ids) = 3
          /\ classify_in[k].confidence = 75
          /\ classify_in[k].type = "uncertain"
          /\ batch[k].type = "consensus"

\* the LLM call raised, or what it returned cannot be parsed into a list
\* of classifications
ResponseUnusable ==
    \/ llm.kind \in {"error", "text", "array"}
    \/ llm.classifications.kind = "null"

\* an entry of the response is valid when it is an object whose fields,
\* the absent ones defaulted, meet the classification schema
ValidEntry(e) ==
    /\ e.dict
    /\ (IF "type" \in e.present THEN e.type ELSE "uncertain")
           \in {"consensus", "disagreement", "uncertain"}
    /\ ("supporting_sources" \in e.present => e.supporting_sources >= 0)
    /\ ("contradicting_sources" \in e.present => e.contradicting_sources >= 0)
    /\ ("confidence" \in e.present => e.confidence \in 0..100)

\* the valid entries the response holds for a claim id
ValidEntriesFor(id) ==
    {k \in DOMAIN llm.classifications.items :
        /\ ValidEntry(llm.classifications.items[k])
        /\ llm.classifications.items[k].claim_id = id}

\* the claim with the type, counts and confidence of an entry
Classified(claim, e) ==
    [claim EXCEPT
        !.type = IF "type" \in e.present THEN e.type ELSE "uncertain",
        !.supporting_sources =
            IF "supporting_sources" \in e.present THEN e.supporting_sources ELSE 0,
        !.contradicting_sources =
            IF "contradicting_sources" \in e.present THEN e.contradicting_sources ELSE 0,
        !.confidence = IF "confidence" \in e.present THEN e.confidence ELSE 50]

\* C9: classify_claims never raises.  If the LLM call raises or its output
\* cannot be parsed, every claim comes back with only its type changed, to
\* the type of the rule.  If the response is usable, the claims it holds no
\* valid entry for come back with only their type changed, to the type of
\* the rule, and every other claim takes the type, counts and confidence
\* of the (last) valid entry of its id.
C9_NeverRaises ==
    kpc = "done" =>
        /\ classify_out = "returned"
        /\ Len(batch) = Len(classify_in)
        /\ \A k \in DOMAIN classify_in :
              IF ResponseUnusable \/ ValidEntriesFor(classify_in[k].id) = {}
              THEN batch[k] = StatedFallback(classify_in[k])
              ELSE \E m \in ValidEntriesFor(classify_in[k].id) :
                      /\ \A o \in ValidEntriesFor(classify_in[k].id) : o <= m
                      /\ batch[k] = Classified(classify_in[k],
                                               llm.classifications.items[m])

\* a response whose entry for the first claim has confidence 150 and whose
\* entry for the second is valid: the first claim got the type of the rule
\* and kept its confidence, the second took the entry
C9_Witness ==
    /\ kpc = "done"
    /\ Len(classify_in) = 2
    /\ llm.kind = "object"
    /\ llm.classifications.kind = "list"
    /\ Len(llm.classifications.items) = 2
    /\ llm.classifications.items[1].claim_id = 1
    /\ llm.classifications.items[1].confidence = 150
    /\ llm.classifications.items[2].claim_id = 2
    /\ llm.classifications.items[2].confidence = 90
    /\ classify_in[1].confidence = 60
    /\ classify_in[1].type = "uncertain"
    /\ batch[1].type = "consensus"
    /\ batch[1].confidence = 60
    /\ batch[2].confidence = 90
    /\ batch[2].supporting_sources = 3

(***************************************************************************)
(* Synthesis: properties                                                   *)
(***************************************************************************)
\* C10: synthesize called with an empty claim list returns a brief with
\* empty consensus and disagreements, exactly one open question,
\* confidence_level low, confidence_score 20 and exactly three
\* limitations, and requests no chat completion.
C10_EmptyBrief ==
    (spc = "done" /\ synth_claims = <<>>) =>
        /\ brief.consensus = <<>>
        /\ brief.disagreements = <<>>
        /\ Len(brief.open_questions) = 1
        /\ brief.confidence_level = "low"
        /\ brief.confidence_score = 20
        /\ Len(brief.limitations) = 3
        /\ llm_calls = 0

\* synthesize returned for an empty claim list although the LLM would
\* have answered with a valid response of its own
C10_Witness ==
    /\ spc = "done"
    /\ synth_claims = <<>>
    /\ synth_llm.kind = "object"
    /\ synth_llm.overall_confidence = "high"
    /\ Len(synth_llm.consensus) = 1
    /\ AllValid(synth_llm.consensus)
    /\ synth_sources = 3
    /\ brief.confidence_score = 20

\* the brief has all its sections and a level and score of the schema
WellFormedBrief(b) ==
    /\ b.confidence_level \in {"high", "medium", "low"}
    /\ b.confidence_score \in 0..100
    /\ DOMAIN b = {"sources", "consensus", "disagreements", "open_questions",
                   "confidence_level", "confidence_score", "limitations"}

\* C11: for every non-empty list of claims and every outcome of the LLM
\* call (exception, missing API key, unparseable text, JSON that fails
\* the schema, valid JSON), synthesize returns a ResearchBrief and raises
\* nothing; when the call itself fails (no key, or the request raises) the
\* brief is the one the deterministic fallback computes.
C11_AlwaysBrief ==
    (spc = "done" /\ synth_claims # <<>>) =>
        /\ synth_out = "returned"
        /\ brief # NoBrief
        /\ WellFormedBrief(brief)
        /\ synth_llm.kind \in {"nokey", "error"} =>
              brief = fallback_synthesis(synth_claims, synth_sources)

\* the request raised for a list of three claims, and synthesize returned
\* the fallback brief with its consensus item
C11_Witness ==
    /\ spc = "done"
    /\ Len(synth_claims) = 3
    /\ synth_llm.kind = "error"
    /\ llm_calls = 1
    /\ synth_out = "returned"
    /\ Len(brief.consensus) >= 1
    /\ Len(brief.limitations) >= 4

\* the number of claims of a type
CountOfType(cl, type) == Cardinality({k \in DOMAIN cl : cl[k].type = type})

\* the level and score as the specification states them, for c consensus
\* and d disagreement claims among n, and s sources
StatedConfidence(c, d, n, s) ==
    LET first == IF 10 * c > 6 * n /\ 10 * d < 2 * n THEN <<"high", 80>>
                 ELSE IF 10 * d > 4 * n THEN <<"low", 45>>
                      ELSE <<"medium", 65>>
    IN  IF s < 3
        THEN <<IF first[1] = "high" THEN "medium" ELSE first[1],
               IF first[2] > 60 THEN 60 ELSE first[2]>>
        ELSE first

\* C12: in the fallback synthesis, with c consensus and d disagreement
\* claims among n >= 1 claims and s sources, the result is high/80 if
\* c/n > 0.6 and d/n < 0.2, otherwise low/45 if d/n > 0.4, otherwise
\* medium/65; then with s < 3 the score is capped at 60 and high becomes
\* medium.  So the only pairs are (high, 80), (medium, 65), (medium, 60),
\* (low, 45), and high needs at least 3 sources.
C12_FallbackConfidence ==
    (spc = "done" /\ synth_llm \in FailedCalls /\ synth_claims # <<>>) =>
        /\ <<brief.confidence_level, brief.confidence_score>> =
              StatedConfidence(CountOfType(synth_claims, "consensus"),
                               CountOfType(synth_claims, "disagreement"),
                               Len(synth_claims), synth_sources)
        /\ <<brief.confidence_level, brief.confidence_score>> \in
              {<<"high", 80>>, <<"medium", 65>>, <<"medium", 60>>, <<"low", 45>>}
        /\ brief.confidence_level = "high" => synth_sources >= 3

\* three consensus claims among five, none disagreeing, three sources:
\* the ratio is exactly 0.6 and the brief is medium/65
C12_Witness ==
    /\ spc = "done"
    /\ synth_llm \in FailedCalls
    /\ Len(synth_claims) = 5
    /\ CountOfType(synth_claims, "consensus") = 3
    /\ CountOfType(synth_claims, "disagreement") = 0
    /\ synth_sources = 3
    /\ brief.confidence_level = "medium"
    /\ brief.confidence_score = 65

(***************************************************************************)
(* Query expansion: properties                                             *)
(***************************************************************************)
\* C13: for every query, _expand_query returns at most 3 strings, the
\* first of them the query unchanged, and no two of them equal.
C13_ExpandDistinct ==
    epc = "done" =>
        /\ Len(queries) >= 1
        /\ Len(queries) <= 3
        /\ queries[1] = expand_in
        /\ \A i, j \in DOMAIN queries : i # j => queries[i] # queries[j]

\* a query that got both variants: its keywords and its capitalised terms
C13_Witness ==
    /\ epc = "done"
    /\ expand_in = <<"W", "o", "w", " ", "o", "h">>
    /\ queries = <<expand_in, <<"w", "o", "w">>, <<"W", "o", "w">>>>

(***************************************************************************)
(* Extraction: properties                                                  *)
(***************************************************************************)
\* C14: every source id of every claim extract_claims returns is the id
\* of one of the sources passed to it, for every LLM response and every
\* list of chunks, also when the ids are inferred from the chunks.
C14_KnownSources ==
    xpc = "done" =>
        \A k \in DOMAIN extracted :
            Range(extracted[k].source_ids) \subseteq Range(known_sources)

(***************************************************************************)
(* The routes: properties                                                  *)
(***************************************************************************)
ConfidenceInRange(cl) ==
    \A k \in DOMAIN cl : cl[k].confidence \in 0..MaxConfidence

\* an LLM response item with a confidence above 100
OutOfRange(items) ==
    \E k \in DOMAIN items :
        "confidence" \in items[k].present /\ items[k].confidence > MaxConfidence

\* C15: after any sequence of extract-claims and reclassify requests, with
\* LLM or fallback classification, every claim stored for the session and
\* every claim returned has a confidence in 0..100; a confidence outside
\* that range in an LLM response is never written to a claim.
C15_ConfidenceInRange ==
    /\ ConfidenceInRange(session_claims)
    /\ ConfidenceInRange(reply.claims)

\* an extraction whose LLM responses, for the claims and for the
\* classification, both held a confidence of 150, and that stored claims
C15_Witness ==
    /\ request.route = "extract"
    /\ request.extract_llm.kind = "object"
    /\ OutOfRange(request.extract_llm.claims.items)
    /\ request.classify_llm.kind = "object"
    /\ OutOfRange(request.classify_llm.classifications.items)
    /\ reply.status = 200
    /\ reply.claims # <<>>
    /\ session_claims = reply.claims

\* a call of the LLM or of the embedding gateway failed during the request
ServiceFailed ==
    \/ request.extract_llm.kind = "error"
    \/ ~request.embedding.ok
    \/ request.classify_llm.kind = "error"
    \/ ~request.cluster_ok

\* C16: an extract-claims request during which the LLM or the embedding
\* gateway fails (in the extraction, the deduplication, the classification
\* or the clustering of more than 10 claims) still completes: the response
\* is a success carrying a claim list, never an error.
C16_FailureNeverSurfaces ==
    (request.route = "extract" /\ ServiceFailed) => reply.status = 200

\* the number of claims of cl whose source_ids contain sid
ClaimsReferencing(cl, sid) ==
    Cardinality({k \in DOMAIN cl : sid \in Range(cl[k].source_ids)})

\* C18: after every completed extract-claims or reclassify request the
\* claims_extracted of each stored source is the number of stored claims
\* whose source_ids contain its id, 0 for a source that no claim names.
C18_CountsCurrent ==
    (request.route \in {"extract", "reclassify"} /\ reply.status = 200) =>
        \A k \in DOMAIN session_sources :
            session_sources[k].claims_extracted
                = ClaimsReferencing(session_claims, session_sources[k].id)

\* C19: a synthesize-report request on a session whose selection of claims
\* is empty (no stored claims, or claim_ids that select none) is answered
\* with the empty brief, not with an error.
C19_EmptyBriefNotError ==
    (request.route = "synthesize"
        /\ SelectedClaims(session_claims, request.claim_ids) = <<>>) =>
        /\ reply.status = 200
        /\ reply.brief = empty_brief(Len(session_sources))

\* the items of a response list that are well formed, up to the cap
WellFormedItems(items, cap) ==
    Take(SelectSeq(items, LAMBDA c : c.dict /\ c.valid), cap)

Refs(items) == [k \in DOMAIN items |-> items[k].ref]

\* the response is a JSON object that fails the schema because of an item
\* of one of its lists, its scalar fields being valid or missing
MalformedItemOnly(raw) ==
    /\ raw.kind = "object"
    /\ \/ ~AllValid(RawGet(raw, "consensus", <<>>))
       \/ ~AllValid(RawGet(raw, "disagreements", <<>>))
       \/ ~AllValid(RawGet(raw, "open_questions", <<>>))
    /\ RawGet(raw, "overall_confidence", "medium") \in ConfidenceLevels
    /\ RawGet(raw, "confidence_score", DefaultScore) \in 0..MaxConfidence

\* C17: when the response of the synthesis LLM fails the schema because a
\* list item is malformed, the brief holds every well-formed consensus,
\* disagreement and open-question item of the response (up to 5, 3 and 4),
\* only the malformed items are dropped, and a missing overall_confidence
\* or confidence_score becomes medium or 65.
C17_PartialRecovery ==
    (spc = "done" /\ synth_claims # <<>> /\ MalformedItemOnly(synth_llm)) =>
        /\ [k \in DOMAIN brief.consensus |-> brief.consensus[k].statement]
             = Refs(WellFormedItems(RawGet(synth_llm, "consensus", <<>>), ConsensusCap))
        /\ [k \in DOMAIN brief.disagreements |-> brief.disagreements[k].claim]
             = Refs(WellFormedItems(RawGet(synth_llm, "disagreements", <<>>), DisagreementCap))
        /\ [k \in DOMAIN brief.open_questions |-> brief.open_questions[k].question]
             = Refs(WellFormedItems(RawGet(synth_llm, "open_questions", <<>>), QuestionCap))
        /\ "overall_confidence" \notin synth_llm.present => brief.confidence_level = "medium"
        /\ "confidence_score" \notin synth_llm.present => brief.confidence_score = DefaultScore

(***************************************************************************)
(* Cosine similarity: properties                                           *)
(***************************************************************************)
AllZero(vec) == \A k \in DOMAIN vec : vec[k] = 0

\* C20: compute_similarity gives the same result with its arguments
\* exchanged; for vectors of one length the quotient lies in [-1,1] (its
\* square is at most 1); and whenever one of the vectors is all-zero the
\* call returns 0.0 and raises nothing.
C20_SimilarityContract ==
    cpc = "done" =>
        /\ cosine = compute_similarity(embedding2, embedding1)
        /\ (Len(embedding1) = Len(embedding2) /\ ~cosine.zero) =>
               cosine.dot * cosine.dot <= cosine.norms
        /\ (AllZero(embedding1) \/ AllZero(embedding2)) =>
               (cosine.raised = "none" /\ cosine.zero)

(***************************************************************************)
(* De-duplication: the eliminated claim                                    *)
(***************************************************************************)
\* C22: in _deduplicate_claims a claim that was eliminated takes no
\* further part in the pass: every comparison is between two claims still
\* kept at that moment, so a dropped claim eliminates no claim and no
\* source_ids are merged into it.
C22_DroppedTakesNoPart ==
    dpc = "returned" =>
        \A k \in DOMAIN comparisons : comparisons[k].i_live

(***************************************************************************)
(* Fallback synthesis: the items                                           *)
(***************************************************************************)
ClaimWithId(cl, id) == CHOOSE c \in Range(cl) : c.id = id

\* ids names, once each, the (at most) cap claims of the type that have
\* the highest confidence, in descending order of confidence
TopOfType(cl, ids, type, cap) ==
    /\ Len(ids) = Min(cap, CountOfType(cl, type))
    /\ \A k \in DOMAIN ids :
          \E c \in Range(cl) : c.id = ids[k] /\ c.type = type
    /\ \A k, m \in DOMAIN ids : k # m => ids[k] # ids[m]
    /\ \A k \in DOMAIN ids : k < Len(ids) =>
          ClaimWithId(cl, ids[k]).confidence >= ClaimWithId(cl, ids[k + 1]).confidence
    /\ \A c \in Range(cl) :
          (c.type = type /\ c.id \notin Range(ids)) =>
              \A k \in DOMAIN ids : ClaimWithId(cl, ids[k]).confidence >= c.confidence

\* C24: in the fallback synthesis the consensus items are the (at most) 5
\* consensus claims of highest confidence in descending order, the
\* disagreement items the (at most) 3 disagreement claims of highest
\* confidence, the open questions the first (at most) 4 uncertain claims;
\* no item comes from a claim of another type.
C24_FallbackItems ==
    (spc = "done" /\ synth_llm.kind = "error" /\ synth_claims # <<>>) =>
        /\ TopOfType(synth_claims,
                     [k \in DOMAIN brief.consensus |-> brief.consensus[k].statement],
                     "consensus", ConsensusCap)
        /\ \A k \in DOMAIN brief.consensus :
              brief.consensus[k].confidence
                  = ClaimWithId(synth_claims, brief.consensus[k].statement).confidence
        /\ TopOfType(synth_claims,
                     [k \in DOMAIN brief.disagreements |-> brief.disagreements[k].claim],
                     "disagreement", DisagreementCap)
        /\ [k \in DOMAIN brief.open_questions |-> brief.open_questions[k].question]
              = [k \in 1..Min(QuestionCap, CountOfType(synth_claims, "uncertain")) |->
                    OfType(synth_claims, "uncertain")[k].id]

\* six consensus claims, the first of confidence 60 and the last of
\* confidence 80: five items, the first claim not among them
C24_Witness ==
    /\ spc = "done"
    /\ Len(synth_claims) = ConsensusCap + 1
    /\ CountOfType(synth_claims, "consensus") = ConsensusCap + 1
    /\ synth_claims[1].confidence = 60
    /\ \A k \in 2..Len(synth_claims) : synth_claims[k].confidence = 80
    /\ Len(brief.consensus) = ConsensusCap
    /\ \A k \in DOMAIN brief.consensus : brief.consensus[k].statement # 1

(***************************************************************************)
(* Re-ranking: the keyword boost                                           *)
(***************************************************************************)
\* the query terms that are equal to a word of the lower-cased content
WordMatches(terms, content) ==
    Cardinality(terms \cap Range(Split(Lower(content.text))))

\* the score with keyword_boost = 1 + 0.02 * |query terms /\ content words|
WordScore(hit, terms) ==
    RoundHundredths(
        Min(hit.relevance_score
              * LengthBoost(ContentLength(hit.content))
              * (KeywordUnit + WordMatches(terms, hit.content) * KeywordStep)
              * SectionTitleBoost(terms, hit.section_title),
            ScoreCap * BoostUnit),
        BoostUnit)

\* C25: the keyword boost of a hit counts the query terms that are equal,
\* case-insensitively, to a word of the hit's content; a term that occurs
\* only inside a longer content word does not raise the score.  So every
\* hit leaves _rerank_results with the score that word count gives.
C25_KeywordBoostCountsWords ==
    [][(rpc = "searched" /\ rpc' = "reranked") =>
          \A i \in DOMAIN results :
              \E j \in DOMAIN results' :
                  /\ results'[j].id = results[i].id
                  /\ results'[j].relevance_score
                        = WordScore(results[i], QueryTerms(query))]_vars

(***************************************************************************)
(* Classification: what it leaves alone                                    *)
(***************************************************************************)
\* the fields classify_claims may write
ClassifiedFields == {"type", "confidence", "supporting_sources", "contradicting_sources"}

SameOutside(a, b, fields) ==
    /\ DOMAIN a = DOMAIN b
    /\ \A f \in DOMAIN a \ fields : a[f] = b[f]

C28_SupportingMatchesSources ==
    xpc = "done" =>
        \A k \in DOMAIN extracted :
            /\ extracted[k].supporting_sources = Len(extracted[k].source_ids)
            /\ extracted[k].contradicting_sources = 0

(***************************************************************************)
(* The routes: the fallback classification of fresh claims                 *)
(***************************************************************************)
\* C29: when the classification LLM call fails in an extract-claims
\* request, on claims fresh from extraction, no claim is typed
\* disagreement (the rule gives consensus or uncertain); after a failed
\* LLM call a claim is typed disagreement only in a re-classification, and
\* then it has the contradicting_sources > 0 that an earlier pass stored.
C29_NoDisagreementOnFirstPass ==
    (request.route \in {"extract", "reclassify"}
        /\ request.classify_llm.kind = "error" /\ reply.status = 200) =>
        \A k \in DOMAIN reply.claims :
            /\ reply.claims[k].type \in ClaimTypes
            /\ reply.claims[k].type = "disagreement" =>
                  /\ request.route = "reclassify"
                  /\ reply.claims[k].contradicting_sources > 0

\* an extraction whose classification call failed: the claim with two
\* sources and confidence 80 became consensus by the rule
C29_Witness ==
    /\ request.route = "extract"
    /\ request.classify_llm.kind = "error"
    /\ reply.status = 200
    /\ reply.claims # <<>>
    /\ session_claims = reply.claims
    /\ \E k \in DOMAIN reply.claims :
          /\ reply.claims[k].type = "consensus"
          /\ Len(reply.claims[k].source_ids) = 2
    /\ \A k \in DOMAIN reply.claims : reply.claims[k].contradicting_sources = 0

(***************************************************************************)
(* The routes: an extraction without claims                                *)
(***************************************************************************)
\* the request selected no chunk, or its extraction LLM call failed, or
\* the extraction was empty
YieldsNoClaims(req) ==
    \/ req.chunk_ids # {}
    \/ req.extract_llm.kind = "error"
    \/ (req.extract_llm.kind = "object" /\ req.extract_llm.claims.items = <<>>)

\* C30: an extract-claims request that yields no claims (no chunks, LLM
\* failure, empty extraction) is answered with an empty successful result,
\* and the stored claims, sources (claims_extracted included), query and
\* brief of the session are after it what they were before.
C30_NoClaimsNoChange ==
    [][(request'.route = "extract" /\ requests' = requests + 1) =>
          /\ YieldsNoClaims(request') =>
                (reply'.status = 200 /\ reply'.claims = <<>>)
          /\ (reply'.status = 200 /\ reply'.claims = <<>>) =>
                /\ session_claims' = session_claims
                /\ session_sources' = session_sources
                /\ session_query' = session_query
                /\ session_brief' = session_brief]_vars

\* a first extraction stored claims and counts, the LLM call of the second
\* failed: the claims, the counts and the query of the first are still there
C30_Witness ==
    /\ requests = 2
    /\ request.route = "extract"
    /\ request.extract_llm.kind = "error"
    /\ reply.status = 200
    /\ reply.claims = <<>>
    /\ session_claims # <<>>
    /\ session_query = 1
    /\ \E k \in DOMAIN session_sources : session_sources[k].claims_extracted > 0

(***************************************************************************)
(* Clustering: properties                                                  *)
(***************************************************************************)
\* the cluster that holds claim i
ClusterOf(i) == CHOOSE k \in DOMAIN clusters : i \in Range(clusters[k].members)

\* the earlier claims, in a cluster's members, at the time claim i came
Representative(k) == clusters[k].members[1]

\* the clusters that existed when claim i was placed and whose
\* representative is similar enough to it
Qualifying(i) ==
    {k \in DOMAIN clusters :
        /\ Representative(k) < i
        /\ SimilarityOf(similarity, i, Representative(k)) >= similarity_threshold}

\* C23: cluster_claims takes the claims in input order and puts each in
\* exactly one cluster: the existing cluster whose representative (its
\* first member) is the most similar to the claim among those with
\* similarity >= threshold, or, when none qualifies, a new cluster with the
\* next id of cluster_0, cluster_1, ...; so the clusters partition the
\* input and their ids have no gaps.
C23_GreedyClusters ==
    gpc = "done" =>
        /\ \A i \in 1..cluster_in :
              Cardinality({k \in DOMAIN clusters :
                              i \in Range(clusters[k].members)}) = 1
        /\ \A k \in DOMAIN clusters :
              /\ clusters[k].id = k - 1
              /\ Range(clusters[k].members) \subseteq 1..cluster_in
              /\ \A a, b \in DOMAIN clusters[k].members :
                    a < b => clusters[k].members[a] < clusters[k].members[b]
        /\ \A i \in 1..cluster_in :
              IF Qualifying(i) = {}
              THEN Representative(ClusterOf(i)) = i
              ELSE /\ ClusterOf(i) \in Qualifying(i)
                   /\ \A k \in Qualifying(i) :
                         SimilarityOf(similarity, i, Representative(ClusterOf(i)))
                            >= SimilarityOf(similarity, i, Representative(k))

(***************************************************************************)
(* Properties: the session stores of the route modules                     *)
(***************************************************************************)
\* the routes that check the session before anything else
SessionRoutes == {"retrieve-chunks", "extract-claims", "synthesize-report"}

\* C27: in one running process, once process-docs has created a session,
\* every later retrieve-chunks, extract-claims and synthesize-report request
\* for that session finds it (no 404), and a synthesize-report request reads
\* the claims that extract-claims saved for the session.
C27_SessionFoundEverywhere ==
    (store_reply.route \in SessionRoutes /\ store_reply.session <= created) =>
        /\ store_reply.status # 404
        /\ (/\ store_reply.route = "synthesize-report"
            /\ saved_by_extract[store_reply.session] # <<>>) =>
              /\ store_reply.status = 200
              /\ store_reply.claims = saved_by_extract[store_reply.session]

(***************************************************************************)
(* Properties: overlapping requests to the claims routes                   *)
(***************************************************************************)
\* every request in flight has returned
AllReturned == \A r \in DOMAIN inflight : inflight[r].pc = "done"

\* the request whose save_session_claims came last
LastSaver == save_order[Len(save_order)]

\* C21: when the overlapping extract-claims / reclassify requests of one
\* session have all returned and at least one saved, the stored claim list,
\* in memory and in sessions.json, is exactly the list the last saver wrote.
C21_LastWriterWins ==
    (inflight # <<>> /\ AllReturned /\ save_order # <<>>) =>
        /\ get_session_claims(ClaimsData, OverlapSession) = inflight[LastSaver].claims
        /\ get_session_claims(sessions_file, OverlapSession) = inflight[LastSaver].claims

\* both requests saved different lists, the one that began with its save
\* pending longest saving last: request 1 extracted before request 2 began
\* to save and saved after it
C21_Witness ==
    /\ inflight # <<>>
    /\ AllReturned
    /\ save_order = <<2, 1>>
    /\ inflight[1].route = "extract"
    /\ inflight[2].route = "reclassify"
    /\ inflight[1].claims # inflight[2].claims
    /\ Len(inflight[1].claims) = 2
    /\ get_session_claims(ClaimsData, OverlapSession) = inflight[1].claims

====
